---- MODULE Spec2Model ----
(***************************************************************************)
(* Recurring auto-order execution engine of the canteen application.       *)
(*                                                                         *)
(* The store is the Firestore collections the engine touches (users,       *)
(* autoOrders, orders, walletTransactions, notifications,                  *)
(* autoOrderExecutions).  A batch pass is executeAutoOrders                *)
(* (src/lib/auto-order-engine.ts), started by the node-cron timer, or the  *)
(* GET handler of /api/auto-orders/execute, which carries its own copy of  *)
(* the same loop.  Every await of a pass is one step, so that two passes   *)
(* interleave exactly where the code can be suspended: after the candidate *)
(* query, after the transaction's read, and at its commit.                 *)
(*                                                                         *)
(* Time is counted in whole minutes since 1970-01-01T00:00Z; the code's    *)
(* millisecond arithmetic is the same arithmetic scaled by 60000.          *)
(***************************************************************************)
EXTENDS Integers, Sequences, FiniteSets, TLC

VARIABLES
    clock,                \* the real clock, minutes since the epoch (new Date())
    users,                \* collection "users":      id -> [exists, walletBalance]
    autoOrders,           \* collection "autoOrders": id -> document
    orders,               \* collection "orders", in creation order
    walletTransactions,   \* collection "walletTransactions", in creation order
    notifications,        \* collection "notifications", in creation order
    autoOrderExecutions,  \* collection "autoOrderExecutions", in creation order
    pass,                 \* per batch pass: its locals and its position
    topUps,               \* number of wallet top-ups made so far
    funded,               \* per user: opening balance plus top-ups (history)
    env,                  \* process.env: [CRON_SECRET, NODE_ENV]
    menuItems,            \* collection "menuItems": id -> [exists, price, changedAt]
    legacyAutoOrders,     \* collection "auto-orders" of the earlier endpoints
    api,                  \* the latest call of a recurring-order endpoint
    circuitBreakers,      \* the Map of aiRouter.ts: "provider:keyIndex" -> CircuitState
    aiCalls               \* per call of the AI router in flight: its locals and position

vars == <<clock, users, autoOrders, orders, walletTransactions, notifications,
          autoOrderExecutions, pass, topUps, funded, env,
          menuItems, legacyAutoOrders, api, circuitBreakers, aiCalls>>

\* The module state of the AI router.
router == <<circuitBreakers, aiCalls>>

\* What the engine and its triggers never touch.
rest == <<menuItems, legacyAutoOrders, api, router>>

store == <<users, autoOrders, orders, walletTransactions, notifications,
           autoOrderExecutions>>

-----------------------------------------------------------------------------
(* Bounds of the model *)

FirstDay == 19727       \* 2024-01-05, a Friday, in days since the epoch
MaxDays == 2            \* the clock visits FirstDay .. FirstDay + MaxDays - 1
MaxTopUps == 1          \* wallet top-ups by the external collaborator

UserIds == {"u1", "u2"}
AutoOrderIds == <<"a1", "a2">>       \* in document-id order, as a query returns them
Passes == {"timer", "cron"}
\* Every activation that can run a pass: two activations of the node-cron
\* callback, the handler of GET /api/auto-orders/execute, and the handler of
\* GET /api/auto-orders/test-execute.  Each specification keeps the slots of
\* the activations it runs.
Invocations == {"timer", "late", "cron", "test"}
TickMinutes == {150, 151}            \* 02:30Z and 02:31Z: 08:00 and 08:01 local
TopUpAmount == 100
OrderIdPool == {"SAITM4F7X"}

-----------------------------------------------------------------------------
(* Constants of the program *)

IST_OFFSET_MIN == 330

DAY_MAP == [n \in 0..6 |->
    CASE n = 0 -> "Sun" [] n = 1 -> "Mon" [] n = 2 -> "Tue" [] n = 3 -> "Wed"
      [] n = 4 -> "Thu" [] n = 5 -> "Fri" [] n = 6 -> "Sat"]

WEEKDAYS == <<"Mon", "Tue", "Wed", "Thu", "Fri">>

Undefined == "undefined"     \* an absent string field
NoTime == -1                 \* an absent timestamp field

Range(s) == {s[i] : i \in 1..Len(s)}

-----------------------------------------------------------------------------
(* Time Resolver *)

\* Number.toString().padStart(2, "0")
Pad2(n) == IF n < 10 THEN "0" \o ToString(n) ELSE ToString(n)

\* getUTCFullYear / getUTCMonth + 1 / getUTCDate of a day number (proleptic
\* Gregorian calendar, days since 1970-01-01).
CivilFromDays(z0) ==
    LET z   == z0 + 719468
        era == z \div 146097
        doe == z - era * 146097
        yoe == (doe - doe \div 1460 + doe \div 36524 - doe \div 146096) \div 365
        doy == doe - (365 * yoe + yoe \div 4 - yoe \div 100)
        mp  == (5 * doy + 2) \div 153
        d   == doy - (153 * mp + 2) \div 5 + 1
        m   == IF mp < 10 THEN mp + 3 ELSE mp - 9
        y   == yoe + era * 400 + (IF m <= 2 THEN 1 ELSE 0)
    IN  [year |-> y, month |-> m, date |-> d]

\* getIST reading the weekday off the instant before it is shifted.
getIST_weekdayBeforeShift(date) ==
    LET ist  == date + IST_OFFSET_MIN
        dayN == ist \div 1440
        hh   == Pad2((ist % 1440) \div 60)
        mm   == Pad2((ist % 1440) % 60)
        day  == DAY_MAP[((date \div 1440) + 4) % 7]
        c    == CivilFromDays(dayN)
    IN  [time    |-> hh \o ":" \o mm,
         day     |-> day,
         dateStr |-> ToString(c.year) \o "-" \o Pad2(c.month) \o "-" \o Pad2(c.date)]

getIST(date) ==
    LET ist  == date + IST_OFFSET_MIN
        dayN == ist \div 1440
        hh   == Pad2((ist % 1440) \div 60)
        mm   == Pad2((ist % 1440) % 60)
        day  == DAY_MAP[(dayN + 4) % 7]
        c    == CivilFromDays(dayN)
    IN  [time    |-> hh \o ":" \o mm,
         day     |-> day,
         dateStr |-> ToString(c.year) \o "-" \o Pad2(c.month) \o "-" \o Pad2(c.date)]

-----------------------------------------------------------------------------
(* Recurrence Evaluator and Execution Ledger Guard *)

\* The check with the weekdays rule reading the week as Mon..Sat.
shouldRun_weekdaysWithSaturday(autoOrder, day) ==
    IF autoOrder.frequency = "daily" THEN TRUE
    ELSE IF autoOrder.frequency = "weekdays" THEN day \in Range(WEEKDAYS) \cup {"Sat"}
    ELSE IF autoOrder.frequency = "custom" /\ autoOrder.customDays.isArray
         THEN day \in Range(autoOrder.customDays.items)
    ELSE FALSE

\* The check starting from shouldRun = true (failing open).
shouldRun_failOpen(autoOrder, day) ==
    IF autoOrder.frequency = "daily" THEN TRUE
    ELSE IF autoOrder.frequency = "weekdays" THEN day \in Range(WEEKDAYS)
    ELSE IF autoOrder.frequency = "custom" /\ autoOrder.customDays.isArray
         THEN day \in Range(autoOrder.customDays.items)
    ELSE TRUE

\* The day-of-week check of the loop body: shouldRun.
shouldRun(autoOrder, day) ==
    IF autoOrder.frequency = "daily" THEN TRUE
    ELSE IF autoOrder.frequency = "weekdays" THEN day \in Range(WEEKDAYS)
    ELSE IF autoOrder.frequency = "custom" /\ autoOrder.customDays.isArray
         THEN day \in Range(autoOrder.customDays.items)
    ELSE FALSE

\* The duplicate guard: autoOrder.lastExecutedDate === ist.dateStr.
alreadyRanToday(autoOrder, dateStr) == autoOrder.lastExecutedDate = dateStr

-----------------------------------------------------------------------------
(* Order Materializer: the body of the transaction callback *)

\* generateOrderId(): a random SAITM id.
generateOrderId == OrderIdPool

NoWrites ==
    [walletInc  |-> 0,
     orders     |-> <<>>,
     walletTxns |-> <<>>,
     notifs     |-> <<>>,
     execs      |-> <<>>,
     tracking   |-> <<>>]

\* The writes buffered by the insufficient-balance branch of the callback.
InsufficientWrites(autoOrderId, autoOrder, now, ist, walletBalance) ==
    LET total == autoOrder.itemPrice * autoOrder.quantity IN
    [NoWrites EXCEPT
       !.execs = <<[autoOrderId    |-> autoOrderId,
                    userId         |-> autoOrder.userId,
                    orderId        |-> Undefined,
                    success        |-> FALSE,
                    failureReason  |-> "Insufficient balance: ₹" \o ToString(walletBalance)
                                       \o " < ₹" \o ToString(total),
                    amountDeducted |-> 0,
                    executedAt     |-> now]>>,
       !.tracking = <<[lastExecutedDate  |-> ist.dateStr,
                       lastExecutedAt    |-> now,
                       setFailure        |-> TRUE,
                       lastFailedAt      |-> now,
                       lastFailureReason |-> "Insufficient balance (₹" \o ToString(walletBalance)
                                             \o " available, ₹" \o ToString(total) \o " needed)",
                       incExecutions     |-> 0,
                       incFailures       |-> 1]>>]

\* The success path with the sign of the wallet increment turned around.
SuccessWrites_creditsWallet(autoOrderId, autoOrder, now, ist, orderId) ==
    LET total == autoOrder.itemPrice * autoOrder.quantity IN
    [walletInc  |-> total,
     orders     |-> <<[orderId     |-> orderId,
                       userId      |-> autoOrder.userId,
                       items       |-> <<[price    |-> autoOrder.itemPrice,
                                          quantity |-> autoOrder.quantity]>>,
                       total       |-> total,
                       paymentMode |-> "Wallet",
                       status      |-> "pending",
                       isAutoOrder |-> TRUE,
                       autoOrderId |-> autoOrderId,
                       createdAt   |-> now]>>,
     walletTxns |-> <<[userId    |-> autoOrder.userId,
                       type      |-> "debit",
                       amount    |-> total,
                       orderId   |-> orderId,
                       createdAt |-> now]>>,
     notifs     |-> <<[userId    |-> autoOrder.userId,
                       type      |-> "auto_order",
                       orderId   |-> orderId,
                       read      |-> FALSE,
                       createdAt |-> now]>>,
     execs      |-> <<[autoOrderId    |-> autoOrderId,
                       userId         |-> autoOrder.userId,
                       orderId        |-> orderId,
                       success        |-> TRUE,
                       failureReason  |-> Undefined,
                       amountDeducted |-> total,
                       executedAt     |-> now]>>,
     tracking   |-> <<[lastExecutedDate  |-> ist.dateStr,
                       lastExecutedAt    |-> now,
                       setFailure        |-> FALSE,
                       lastFailedAt      |-> NoTime,
                       lastFailureReason |-> Undefined,
                       incExecutions     |-> 1,
                       incFailures       |-> 0]>>]

SuccessWrites_livePrice(autoOrderId, autoOrder, now, ist, orderId) ==
    LET total == menuItems["m1"].price * autoOrder.quantity IN
    [walletInc  |-> 0 - total,
     orders     |-> <<[orderId     |-> orderId,
                       userId      |-> autoOrder.userId,
                       items       |-> <<[price    |-> autoOrder.itemPrice,
                                          quantity |-> autoOrder.quantity]>>,
                       total       |-> total,
                       paymentMode |-> "Wallet",
                       status      |-> "pending",
                       isAutoOrder |-> TRUE,
                       autoOrderId |-> autoOrderId,
                       createdAt   |-> now]>>,
     walletTxns |-> <<[userId    |-> autoOrder.userId,
                       type      |-> "debit",
                       amount    |-> total,
                       orderId   |-> orderId,
                       createdAt |-> now]>>,
     notifs     |-> <<[userId    |-> autoOrder.userId,
                       type      |-> "auto_order",
                       orderId   |-> orderId,
                       read      |-> FALSE,
                       createdAt |-> now]>>,
     execs      |-> <<[autoOrderId    |-> autoOrderId,
                       userId         |-> autoOrder.userId,
                       orderId        |-> orderId,
                       success        |-> TRUE,
                       failureReason  |-> Undefined,
                       amountDeducted |-> total,
                       executedAt     |-> now]>>,
     tracking   |-> <<[lastExecutedDate  |-> ist.dateStr,
                       lastExecutedAt    |-> now,
                       setFailure        |-> FALSE,
                       lastFailedAt      |-> NoTime,
                       lastFailureReason |-> Undefined,
                       incExecutions     |-> 1,
                       incFailures       |-> 0]>>]

\* The six writes buffered by the success path of the callback.
SuccessWrites(autoOrderId, autoOrder, now, ist, orderId) ==
    LET total == autoOrder.itemPrice * autoOrder.quantity IN
    [walletInc  |-> 0 - total,
     orders     |-> <<[orderId     |-> orderId,
                       userId      |-> autoOrder.userId,
                       items       |-> <<[price    |-> autoOrder.itemPrice,
                                          quantity |-> autoOrder.quantity]>>,
                       total       |-> total,
                       paymentMode |-> "Wallet",
                       status      |-> "pending",
                       isAutoOrder |-> TRUE,
                       autoOrderId |-> autoOrderId,
                       createdAt   |-> now]>>,
     walletTxns |-> <<[userId    |-> autoOrder.userId,
                       type      |-> "debit",
                       amount    |-> total,
                       orderId   |-> orderId,
                       createdAt |-> now]>>,
     notifs     |-> <<[userId    |-> autoOrder.userId,
                       type      |-> "auto_order",
                       orderId   |-> orderId,
                       read      |-> FALSE,
                       createdAt |-> now]>>,
     execs      |-> <<[autoOrderId    |-> autoOrderId,
                       userId         |-> autoOrder.userId,
                       orderId        |-> orderId,
                       success        |-> TRUE,
                       failureReason  |-> Undefined,
                       amountDeducted |-> total,
                       executedAt     |-> now]>>,
     tracking   |-> <<[lastExecutedDate  |-> ist.dateStr,
                       lastExecutedAt    |-> now,
                       setFailure        |-> FALSE,
                       lastFailedAt      |-> NoTime,
                       lastFailureReason |-> Undefined,
                       incExecutions     |-> 1,
                       incFailures       |-> 0]>>]

\* The callback with the balance check left out.
TxBody_noBalanceCheck(autoOrderId, autoOrder, now, ist, userDoc, orderId) ==
    IF ~userDoc.exists THEN
        [throw |-> "USER_NOT_FOUND", writes |-> NoWrites]
    ELSE
        [throw  |-> "none",
         writes |-> SuccessWrites(autoOrderId, autoOrder, now, ist, orderId)]

\* The callback with the existence check left out: the balance of a missing
\* document counts as 0.
TxBody_noUserCheck(autoOrderId, autoOrder, now, ist, userDoc, orderId) ==
    IF userDoc.walletBalance < autoOrder.itemPrice * autoOrder.quantity THEN
        [throw  |-> "INSUFFICIENT_BALANCE",
         writes |-> InsufficientWrites(autoOrderId, autoOrder, now, ist,
                                       userDoc.walletBalance)]
    ELSE
        [throw  |-> "none",
         writes |-> SuccessWrites(autoOrderId, autoOrder, now, ist, orderId)]

\* What the callback passed to runTransaction does, given the user document
\* that transaction.get returned: the writes it buffers on the transaction
\* and the error it throws ("none" when it returns normally).
TxBody(autoOrderId, autoOrder, now, ist, userDoc, orderId) ==
    LET total == autoOrder.itemPrice * autoOrder.quantity
        walletBalance == userDoc.walletBalance
    IN
    IF ~userDoc.exists THEN
        [throw |-> "USER_NOT_FOUND", writes |-> NoWrites]
    ELSE IF walletBalance < total THEN
        [throw  |-> "INSUFFICIENT_BALANCE",
         writes |-> InsufficientWrites(autoOrderId, autoOrder, now, ist, walletBalance)]
    ELSE
        [throw  |-> "none",
         writes |-> SuccessWrites(autoOrderId, autoOrder, now, ist, orderId)]

\* The tracking update treating the order as one-shot: it is paused once it
\* has run.
ApplyTracking_pausesAfterRun(doc, t) ==
    [doc EXCEPT
        !.lastExecutedDate  = t.lastExecutedDate,
        !.lastExecutedAt    = t.lastExecutedAt,
        !.lastFailedAt      = IF t.setFailure THEN t.lastFailedAt ELSE @,
        !.lastFailureReason = IF t.setFailure THEN t.lastFailureReason ELSE @,
        !.totalExecutions   = @ + t.incExecutions,
        !.totalFailures     = @ + t.incFailures,
        !.status            = "paused"]

\* transaction.update(autoOrderDoc.ref, {...}) applied to the stored document:
\* the named fields are overwritten, the counters incremented in place.
ApplyTracking(doc, t) ==
    [doc EXCEPT
        !.lastExecutedDate  = t.lastExecutedDate,
        !.lastExecutedAt    = t.lastExecutedAt,
        !.lastFailedAt      = IF t.setFailure THEN t.lastFailedAt ELSE @,
        !.lastFailureReason = IF t.setFailure THEN t.lastFailureReason ELSE @,
        !.totalExecutions   = @ + t.incExecutions,
        !.totalFailures     = @ + t.incFailures]

-----------------------------------------------------------------------------
(* Batch Runner: locals of one pass *)

NoIST == [time |-> "", day |-> "", dateStr |-> ""]
\* A request: its Authorization header and its ?secret= and ?time= parameters.
NoRequest == [authorization |-> Undefined, secret |-> Undefined, time |-> Undefined]
NoUserDoc == [exists |-> FALSE, walletBalance |-> 0]
NoResult == [kind |-> "none"]

IdlePass ==
    [pc        |-> "idle",      \* idle | loop | tx | commit | done | replied
     req       |-> NoRequest,   \* the request being served, if any
     now       |-> 0,
     ist       |-> NoIST,
     queryTime |-> "",
     snapshot  |-> <<>>,        \* snapshot.docs: <<[id, data]>>
     idx       |-> 0,           \* position of the for loop in snapshot.docs
     processed |-> 0,
     succeeded |-> 0,
     failed    |-> 0,
     skipped   |-> 0,
     errors    |-> <<>>,
     userDoc   |-> NoUserDoc,   \* what transaction.get(userRef) returned
     stale     |-> FALSE,       \* the user document was written since it was read
     outcomes  |-> <<>>,        \* history: per evaluated candidate [id, outcome, error]
     result    |-> NoResult]

\* The candidate query without its time filter.
QueryCandidates_ignoresTime(queryTime) ==
    LET ids == SelectSeq(AutoOrderIds,
                   LAMBDA id : /\ autoOrders[id].exists
                               /\ autoOrders[id].status = "active")
    IN  [i \in 1..Len(ids) |-> [id |-> ids[i], data |-> autoOrders[ids[i]]]]

\* The candidate query: where status == "active" and time == queryTime.
QueryCandidates(queryTime) ==
    LET ids == SelectSeq(AutoOrderIds,
                   LAMBDA id : /\ autoOrders[id].exists
                               /\ autoOrders[id].status = "active"
                               /\ autoOrders[id].time = queryTime)
    IN  [i \in 1..Len(ids) |-> [id |-> ids[i], data |-> autoOrders[ids[i]]]]

\* executeAutoOrders: the result returned when the snapshot is empty.
EmptyResult(queryTime, ist) ==
    [kind |-> "engine", success |-> TRUE, time |-> queryTime, day |-> ist.day,
     date |-> ist.dateStr, candidates |-> 0, skipped |-> 0, processed |-> 0,
     succeeded |-> 0, failed |-> 0, errors |-> <<>>,
     message |-> "No active auto orders for " \o queryTime \o " IST"]

\* executeAutoOrders: the result returned after the loop.
SummaryResult(ps) ==
    [kind |-> "engine", success |-> TRUE, time |-> ps.queryTime, day |-> ps.ist.day,
     date |-> ps.ist.dateStr, candidates |-> Len(ps.snapshot), skipped |-> ps.skipped,
     processed |-> ps.processed, succeeded |-> ps.succeeded, failed |-> ps.failed,
     errors |-> ps.errors, message |-> Undefined]

\* The outer catch reporting the items counted before the failure.
FatalResult_keepsCounts(queryTime, ist, msg) ==
    [kind |-> "engine", success |-> FALSE, time |-> queryTime, day |-> ist.day,
     date |-> ist.dateStr, candidates |-> 1, skipped |-> 0, processed |-> 1,
     succeeded |-> 0, failed |-> 1, errors |-> <<msg>>, message |-> msg]

\* executeAutoOrders: the result returned by the outer catch.
FatalResult(queryTime, ist, msg) ==
    [kind |-> "engine", success |-> FALSE, time |-> queryTime, day |-> ist.day,
     date |-> ist.dateStr, candidates |-> 0, skipped |-> 0, processed |-> 0,
     succeeded |-> 0, failed |-> 0, errors |-> <<msg>>, message |-> msg]

\* GET /api/auto-orders/execute: the three responses of the handler.
RouteEmptyResponse(ist) ==
    [kind |-> "route", status |-> 200, success |-> TRUE, processed |-> 0,
     message |-> "No active auto orders for " \o ist.time \o " IST"]

RouteSummaryResponse(ps) ==
    [kind |-> "route", status |-> 200, success |-> TRUE, time |-> ps.ist.time,
     day |-> ps.ist.day, date |-> ps.ist.dateStr, candidates |-> Len(ps.snapshot),
     skipped |-> ps.skipped, processed |-> ps.processed, succeeded |-> ps.succeeded,
     failed |-> ps.failed]

RouteFatalResponse(msg) ==
    [kind |-> "route", status |-> 500, error |-> msg]

\* The timer and the test endpoint call executeAutoOrders; the cron endpoint
\* runs its own loop.
IsEngine(p) == p # "cron"

\* The per-item catch block: the entry pushed on errors.
ErrorEntry(autoOrderId, errMsg) ==
    IF errMsg = "INSUFFICIENT_BALANCE" THEN autoOrderId \o ": insufficient balance"
    ELSE IF errMsg = "USER_NOT_FOUND" THEN autoOrderId \o ": user not found"
    ELSE autoOrderId \o ": " \o errMsg

\* The per-item catch block counting the failure without recording its error.
ItemFailed_dropsError(p, ps, errMsg) ==
    LET id == ps.snapshot[ps.idx].id IN
    [ps EXCEPT
        !.failed   = @ + 1,
        !.outcomes = Append(@, [id |-> id, outcome |-> "failed", error |-> errMsg]),
        !.idx      = @ + 1,
        !.userDoc  = NoUserDoc,
        !.stale    = FALSE,
        !.pc       = "loop"]

\* The per-item catch block leaving the for loop instead of continuing it.
ItemFailed_breaksLoop(p, ps, errMsg) ==
    LET id == ps.snapshot[ps.idx].id IN
    [ps EXCEPT
        !.errors   = IF IsEngine(p) THEN Append(@, ErrorEntry(id, errMsg)) ELSE @,
        !.failed   = @ + 1,
        !.outcomes = Append(@, [id |-> id, outcome |-> "failed", error |-> errMsg]),
        !.idx      = Len(ps.snapshot) + 1,
        !.userDoc  = NoUserDoc,
        !.stale    = FALSE,
        !.pc       = "loop"]

\* The per-item catch block as a whole: the error is recorded (the engine
\* keeps the list, the route handler only logs), failed++, and the for loop
\* goes on to the next document.
ItemFailed(p, ps, errMsg) ==
    LET id == ps.snapshot[ps.idx].id IN
    [ps EXCEPT
        !.errors   = IF IsEngine(p) THEN Append(@, ErrorEntry(id, errMsg)) ELSE @,
        !.failed   = @ + 1,
        !.outcomes = Append(@, [id |-> id, outcome |-> "failed", error |-> errMsg]),
        !.idx      = @ + 1,
        !.userDoc  = NoUserDoc,
        !.stale    = FALSE,
        !.pc       = "loop"]

\* The message of an exception that is none of the two the callback throws
\* (the storage layer failing, or the commit giving up after contention).
UnexpectedErrors == {"UNAVAILABLE"}

-----------------------------------------------------------------------------
(* Initial state: a store as the creation endpoint and the registration
   endpoint leave it, and no pass running *)

NewAutoOrder(userId, itemPrice, quantity, time, frequency, customDays) ==
    [exists            |-> TRUE,
     userId            |-> userId,
     itemPrice         |-> itemPrice,
     quantity          |-> quantity,
     time              |-> time,
     frequency         |-> frequency,
     customDays        |-> customDays,
     status            |-> "active",
     lastExecutedDate  |-> Undefined,
     lastExecutedAt    |-> NoTime,
     lastFailedAt      |-> NoTime,
     lastFailureReason |-> Undefined,
     totalExecutions   |-> 0,
     totalFailures     |-> 0]

NoCustomDays == [isArray |-> FALSE, items |-> <<>>]

\* The catalog: one item on sale, and an id no item has.
MenuItemIds == {"m1", "m9"}
LegacyIds == {"l1"}

NoLegacyDoc ==
    [exists |-> FALSE, userId |-> Undefined, status |-> Undefined,
     frequency |-> Undefined, customDays |-> NoCustomDays]

NoQuantity == -1             \* an absent quantity field

\* The JSON body of a request: absent fields are Undefined.
NoBody ==
    [userId |-> Undefined, itemId |-> Undefined, quantity |-> NoQuantity,
     time |-> Undefined, frequency |-> Undefined, customDays |-> NoCustomDays,
     status |-> Undefined]

NoCall == [endpoint |-> "none", uid |-> Undefined, id |-> Undefined,
           body |-> NoBody, status |-> 0]

\* DEFAULT_CONFIG of aiRouter.ts.
DEFAULT_CONFIG ==
    [maxRetriesPerProvider  |-> 3,
     cooldownMs             |-> 5 * 60 * 1000,
     maxFailuresBeforeBreak |-> 3]

PROVIDER_ORDER == <<"gemini", "poe", "groq", "cohere">>

\* getKeysForProvider(provider).length under the configured environment:
\* two keys for gemini, one for cohere, none for poe and groq.
getKeysForProvider(provider) ==
    CASE provider = "gemini" -> 2
      [] provider = "cohere" -> 1
      [] OTHER -> 0

\* supportsVision / supportsText of the provider's adapter.
Supports(provider, phase) ==
    IF phase = "vision" THEN provider \in {"gemini", "poe", "groq"} ELSE TRUE

\* `${provider}:${keyIndex}`
CircuitKey(provider, keyIndex) == provider \o ":" \o ToString(keyIndex)

CircuitKeys ==
    UNION { {CircuitKey(PROVIDER_ORDER[i], ki) :
                ki \in 0..(getKeysForProvider(PROVIDER_ORDER[i]) - 1)} :
            i \in 1..Len(PROVIDER_ORDER) }

AiCallIds == {"c1"}

\* A call slot with no call in it.
IdleCall ==
    [fn          |-> "none",    \* runTextAI | runVisionAI
     phase       |-> "none",    \* vision | ocr | text
     pc          |-> "idle",    \* idle | await | ocr | done
     pi          |-> 0,         \* position in PROVIDER_ORDER
     ki          |-> 0,
     retriesUsed |-> 0,
     attempts    |-> [i \in 1..Len(PROVIDER_ORDER) |-> 0],   \* history: per provider
     result      |-> [success |-> FALSE, provider |-> "none", reason |-> "none"]]

\* The router as the module loads: getCircuitState makes every entry
\* {failures: 0, lastFailureAt: 0, isOpen: false} on first use.
QuietRouter ==
    /\ circuitBreakers = [k \in CircuitKeys |->
                            [failures |-> 0, lastFailureAt |-> 0, isOpen |-> FALSE]]
    /\ aiCalls = [c \in AiCallIds |-> IdleCall]

\* No recurring-order endpoint has been called, the catalog sells m1 at 50,
\* and the earlier collection is empty.
QuietFrontend ==
    /\ menuItems = [m \in MenuItemIds |->
                      IF m = "m1" THEN [exists |-> TRUE, price |-> 50, changedAt |-> NoTime]
                      ELSE [exists |-> FALSE, price |-> 0, changedAt |-> NoTime]]
    /\ legacyAutoOrders = [l \in LegacyIds |-> NoLegacyDoc]
    /\ api = NoCall
    /\ QuietRouter

Init ==
    /\ clock = FirstDay * 1440 + 150
    /\ \E w \in {50, 100}, o2 \in {"u1", "gone"} :
         /\ users = [u \in UserIds |->
                      IF u = "u1" THEN [exists |-> TRUE, walletBalance |-> w]
                      ELSE NoUserDoc]
         /\ autoOrders = [a \in Range(AutoOrderIds) |->
                      IF a = "a1"
                      THEN NewAutoOrder("u1", 50, 2, "08:00", "daily", NoCustomDays)
                      ELSE NewAutoOrder(IF o2 = "gone" THEN "u2" ELSE o2,
                                        50, 1, "08:00", "weekdays", NoCustomDays)]
    /\ orders = <<>>
    /\ walletTransactions = <<>>
    /\ notifications = <<>>
    /\ autoOrderExecutions = <<>>
    /\ pass = [p \in Passes |-> IdlePass]
    /\ topUps = 0
    /\ funded = [u \in UserIds |-> users[u].walletBalance]
    /\ env = [CRON_SECRET |-> "s3cret", NODE_ENV |-> "production"]
    /\ QuietFrontend

-----------------------------------------------------------------------------
(* Steps of a batch pass *)

CurrentItem(ps) == ps.snapshot[ps.idx]

\* A committed write to a user document invalidates every other transaction
\* that has read that document and not yet committed.
MarkStale(passes, p, userId) ==
    [q \in DOMAIN passes |->
        IF q # p /\ passes[q].pc = "commit"
                 /\ CurrentItem(passes[q]).data.userId = userId
        THEN [passes[q] EXCEPT !.stale = TRUE]
        ELSE passes[q]]

\* The query time with the override dropped.
QueryTime_ignoresOverride(p, overrideTime, ist) == ist.time

\* overrideTime || ist.time: the engine's query time.  The cron endpoint
\* always queries with ist.time.
QueryTime(p, overrideTime, ist) ==
    IF IsEngine(p) /\ overrideTime \notin {Undefined, ""} THEN overrideTime
    ELSE ist.time

\* A pass begins for request req: the clock is read, the local time resolved
\* and the candidate query answered.  An empty snapshot ends the pass at once.
BeginPass(p, req, overrideTime) ==
    /\ pass[p].pc \in {"idle", "done", "replied"}
    /\ LET now       == clock
           ist       == getIST(now)
           queryTime == QueryTime(p, overrideTime, ist)
           snapshot  == QueryCandidates(queryTime)
       IN  pass' = [pass EXCEPT ![p] =
             IF snapshot = <<>>
             THEN [IdlePass EXCEPT
                     !.pc = "done", !.req = req,
                     !.now = now, !.ist = ist, !.queryTime = queryTime,
                     !.result = IF IsEngine(p) THEN EmptyResult(queryTime, ist)
                                ELSE RouteEmptyResponse(ist)]
             ELSE [IdlePass EXCEPT
                     !.pc = "loop", !.req = req,
                     !.now = now, !.ist = ist, !.queryTime = queryTime,
                     !.snapshot = snapshot, !.idx = 1]]
    /\ UNCHANGED <<clock, store, topUps, funded, env, rest>>

\* A pass begins and the candidate query throws: the outer catch answers.
BeginPassFails(p, req, overrideTime) ==
    /\ pass[p].pc \in {"idle", "done", "replied"}
    /\ \E msg \in UnexpectedErrors :
         LET now       == clock
             ist       == getIST(now)
             queryTime == QueryTime(p, overrideTime, ist)
         IN  pass' = [pass EXCEPT ![p] =
               [IdlePass EXCEPT
                  !.pc = "done", !.req = req,
                  !.now = now, !.ist = ist, !.queryTime = queryTime,
                  !.result = IF IsEngine(p) THEN FatalResult(queryTime, ist, msg)
                             ELSE RouteFatalResponse(msg)]]
    /\ UNCHANGED <<clock, store, topUps, funded, env, rest>>

\* A pass starts with no override: the timer's call executeAutoOrders(), or
\* an authorized call of the cron endpoint.
StartPass(p) == BeginPass(p, NoRequest, Undefined)

\* A pass starts and the candidate query throws.
QueryFails(p) == BeginPassFails(p, NoRequest, Undefined)

\* The iteration with processed++ placed before the two checks.
EvaluateCandidate_countsBeforeChecks(p) ==
    LET ps == pass[p] IN
    /\ ps.pc = "loop"
    /\ ps.idx <= Len(ps.snapshot)
    /\ LET item == ps.snapshot[ps.idx] IN
       pass' = [pass EXCEPT ![p] =
          IF \/ ~shouldRun(item.data, ps.ist.day)
             \/ alreadyRanToday(item.data, ps.ist.dateStr)
          THEN [ps EXCEPT !.processed = @ + 1,
                          !.skipped  = @ + 1,
                          !.outcomes = Append(@, [id |-> item.id, outcome |-> "skipped", error |-> "none"]),
                          !.idx      = @ + 1]
          ELSE [ps EXCEPT !.processed = @ + 1,
                          !.pc        = "tx"]]
    /\ UNCHANGED <<clock, store, topUps, funded, env, rest>>

\* One iteration of the for loop up to its first await: the day-of-week
\* check and the duplicate guard, on the data of the snapshot.
EvaluateCandidate(p) ==
    LET ps == pass[p] IN
    /\ ps.pc = "loop"
    /\ ps.idx <= Len(ps.snapshot)
    /\ LET item == CurrentItem(ps) IN
       pass' = [pass EXCEPT ![p] =
          IF \/ ~shouldRun(item.data, ps.ist.day)
             \/ alreadyRanToday(item.data, ps.ist.dateStr)
          THEN [ps EXCEPT !.skipped  = @ + 1,
                          !.outcomes = Append(@, [id |-> item.id, outcome |-> "skipped", error |-> "none"]),
                          !.idx      = @ + 1]
          ELSE [ps EXCEPT !.processed = @ + 1,
                          !.pc        = "tx"]]
    /\ UNCHANGED <<clock, store, topUps, funded, env, rest>>

\* runTransaction: when the callback throws, the buffered writes are
\* discarded (rollback) and the error is rethrown to the caller; when it
\* returns, the buffered writes are committed together.
CommittedWrites(body) ==
    IF body.throw = "none" THEN body.writes ELSE NoWrites

\* A commit that loses the notification.
ApplyWrites_noNotification(w, autoOrderId, userId) ==
    /\ users' = [users EXCEPT ![userId].walletBalance = @ + w.walletInc]
    /\ orders' = orders \o w.orders
    /\ walletTransactions' = walletTransactions \o w.walletTxns
    /\ notifications' = notifications
    /\ autoOrderExecutions' = autoOrderExecutions \o w.execs
    /\ autoOrders' = IF w.tracking = <<>> THEN autoOrders
                     ELSE [autoOrders EXCEPT ![autoOrderId] = ApplyTracking(@, w.tracking[1])]

\* The commit of a set of writes: all of them in one step.
ApplyWrites(w, autoOrderId, userId) ==
    /\ users' = [users EXCEPT ![userId].walletBalance = @ + w.walletInc]
    /\ orders' = orders \o w.orders
    /\ walletTransactions' = walletTransactions \o w.walletTxns
    /\ notifications' = notifications \o w.notifs
    /\ autoOrderExecutions' = autoOrderExecutions \o w.execs
    /\ autoOrders' = IF w.tracking = <<>> THEN autoOrders
                     ELSE [autoOrders EXCEPT ![autoOrderId] = ApplyTracking(@, w.tracking[1])]

\* A commit that never notices a concurrent write.
CommitConflict_never(ps) == FALSE

\* The commit is refused, and the callback run again, when the user document
\* it read has been written in the meantime.
CommitConflict(ps) == ps.stale

\* The transaction callback runs: transaction.get(userRef), then the
\* synchronous rest of the callback.  If it throws, the transaction is rolled
\* back and the per-item catch block takes over; otherwise the writes wait
\* for the commit.
TransactionRead(p) ==
    LET ps      == pass[p]
        item    == CurrentItem(ps)
        userDoc == users[item.data.userId]
    IN
    /\ ps.pc = "tx"
    /\ \E orderId \in generateOrderId :
         LET body == TxBody(item.id, item.data, ps.now, ps.ist, userDoc, orderId) IN
         IF body.throw # "none"
         THEN /\ ApplyWrites(CommittedWrites(body), item.id, item.data.userId)
              /\ pass' = [pass EXCEPT ![p] = ItemFailed(p, ps, body.throw)]
         ELSE /\ pass' = [pass EXCEPT ![p] = [ps EXCEPT !.pc = "commit",
                                                        !.userDoc = userDoc,
                                                        !.stale = FALSE]]
              /\ UNCHANGED store
    /\ UNCHANGED <<clock, topUps, funded, env, rest>>

\* The transaction commits, or is sent back to run its callback again.
TransactionCommit(p) ==
    LET ps   == pass[p]
        item == CurrentItem(ps)
    IN
    /\ ps.pc = "commit"
    /\ IF CommitConflict(ps)
       THEN /\ pass' = [pass EXCEPT ![p] = [ps EXCEPT !.pc = "tx",
                                                      !.userDoc = NoUserDoc,
                                                      !.stale = FALSE]]
            /\ UNCHANGED store
       ELSE \E orderId \in generateOrderId :
            LET body == TxBody(item.id, item.data, ps.now, ps.ist, ps.userDoc, orderId) IN
            /\ ApplyWrites(CommittedWrites(body), item.id, item.data.userId)
            /\ pass' = MarkStale(
                 [pass EXCEPT ![p] =
                    [ps EXCEPT !.succeeded = @ + 1,
                               !.outcomes  = Append(@, [id |-> item.id, outcome |-> "succeeded", error |-> "none"]),
                               !.idx       = @ + 1,
                               !.userDoc   = NoUserDoc,
                               !.pc        = "loop"]],
                 p, item.data.userId)
    /\ UNCHANGED <<clock, topUps, funded, env, rest>>

\* runTransaction rejects with an error of the storage layer: nothing is
\* written, and the per-item catch block takes over.
TransactionThrows(p) ==
    LET ps == pass[p] IN
    /\ ps.pc \in {"tx", "commit"}
    /\ \E msg \in UnexpectedErrors :
         pass' = [pass EXCEPT ![p] = ItemFailed(p, ps, msg)]
    /\ UNCHANGED <<clock, store, topUps, funded, env, rest>>

\* The for loop is over: the summary is built and returned.
FinishPass(p) ==
    LET ps == pass[p] IN
    /\ ps.pc = "loop"
    /\ ps.idx > Len(ps.snapshot)
    /\ pass' = [pass EXCEPT ![p] =
          [ps EXCEPT !.pc = "done",
                     !.snapshot = <<>>,
                     !.result = IF IsEngine(p) THEN SummaryResult(ps)
                                ELSE RouteSummaryResponse(ps)]]
    /\ UNCHANGED <<clock, store, topUps, funded, env, rest>>

-----------------------------------------------------------------------------
(* Environment *)

ClockInstants ==
    {d * 1440 + m : d \in FirstDay..(FirstDay + MaxDays - 1), m \in TickMinutes}

\* Time passes.
Tick ==
    /\ \E t \in ClockInstants : t > clock /\ clock' = t
    /\ UNCHANGED <<store, pass, topUps, funded, env, rest>>

\* The wallet of a user is topped up by the payment collaborator.
TopUp(u) ==
    /\ users[u].exists
    /\ topUps < MaxTopUps
    /\ topUps' = topUps + 1
    /\ users' = [users EXCEPT ![u].walletBalance = @ + TopUpAmount]
    /\ funded' = [funded EXCEPT ![u] = @ + TopUpAmount]
    /\ pass' = MarkStale(pass, "none", u)
    /\ UNCHANGED <<clock, autoOrders, orders, walletTransactions, notifications,
                   autoOrderExecutions, env, rest>>

-----------------------------------------------------------------------------

Next ==
    \/ \E p \in Passes : StartPass(p)
    \/ \E p \in Passes : QueryFails(p)
    \/ \E p \in Passes : EvaluateCandidate(p)
    \/ \E p \in Passes : TransactionRead(p)
    \/ \E p \in Passes : TransactionCommit(p)
    \/ \E p \in Passes : TransactionThrows(p)
    \/ \E p \in Passes : FinishPass(p)
    \/ Tick
    \/ \E u \in UserIds : TopUp(u)

Spec == Init /\ [][Next]_vars

-----------------------------------------------------------------------------
(* The on-demand trigger endpoints: GET /api/auto-orders/execute (slot
   "cron") and GET /api/auto-orders/test-execute (slot "test"), under every
   configuration of CRON_SECRET and NODE_ENV and for requests with and
   without credentials and override time, within one minute of the clock *)

\* verifyCronAuth accepting any bearer token.
verifyCronAuth_anyBearer(req) ==
    LET cronSecret == env.CRON_SECRET IN
    IF cronSecret \in {Undefined, ""} THEN TRUE
    ELSE IF req.authorization # Undefined THEN TRUE
    ELSE IF req.secret = cronSecret THEN TRUE
    ELSE FALSE

verifyCronAuth(req) ==
    LET cronSecret == env.CRON_SECRET IN
    IF cronSecret \in {Undefined, ""} THEN TRUE
    ELSE IF req.authorization = "Bearer " \o cronSecret THEN TRUE
    ELSE IF req.secret = cronSecret THEN TRUE
    ELSE FALSE

RouteUnauthorizedResponse == [kind |-> "route", status |-> 401, error |-> "Unauthorized"]

TestDisabledResponse ==
    [kind |-> "test", status |-> 403, error |-> "Test endpoint is disabled in production"]

\* NextResponse.json({ _testEndpoint: true, _note: ..., ...result }).
TestResponse(result) == [status |-> 200, testEndpoint |-> TRUE] @@ result

\* A handler answers without running a pass.
Refuse(p, req, response) ==
    /\ pass[p].pc \in {"idle", "done", "replied"}
    /\ pass' = [pass EXCEPT ![p] =
                  [IdlePass EXCEPT !.pc = "replied", !.req = req, !.result = response]]
    /\ UNCHANGED <<clock, store, topUps, funded, env, rest>>

\* GET /api/auto-orders/execute: the auth check, then the pass.
CronRequest(req) ==
    IF ~verifyCronAuth(req)
    THEN Refuse("cron", req, RouteUnauthorizedResponse)
    ELSE \/ BeginPass("cron", req, req.time)
         \/ BeginPassFails("cron", req, req.time)

\* The test handler without its production block.
TestRequest_noProductionBlock(req) ==
    LET overrideTime == IF req.time \in {Undefined, ""} THEN Undefined ELSE req.time IN
    \/ BeginPass("test", req, overrideTime)
    \/ BeginPassFails("test", req, overrideTime)

\* GET /api/auto-orders/test-execute up to the end of executeAutoOrders.
TestRequest(req) ==
    IF env.NODE_ENV = "production"
    THEN Refuse("test", req, TestDisabledResponse)
    ELSE LET overrideTime == IF req.time \in {Undefined, ""} THEN Undefined ELSE req.time IN
         \/ BeginPass("test", req, overrideTime)
         \/ BeginPassFails("test", req, overrideTime)

\* GET /api/auto-orders/test-execute: the response built from the result.
TestRespond ==
    /\ pass["test"].pc = "done"
    /\ pass' = [pass EXCEPT !["test"].pc = "replied",
                            !["test"].result = TestResponse(@)]
    /\ UNCHANGED <<clock, store, topUps, funded, env, rest>>

CronRequests ==
    {NoRequest,
     [NoRequest EXCEPT !.authorization = "Bearer s3cret"],
     [NoRequest EXCEPT !.authorization = "Bearer guess"],
     [NoRequest EXCEPT !.secret = "s3cret"],
     [NoRequest EXCEPT !.secret = "guess"],
     [NoRequest EXCEPT !.time = "09:15"],
     [NoRequest EXCEPT !.authorization = "Bearer s3cret", !.time = "09:15"]}

TestRequests ==
    [authorization : {Undefined}, secret : {Undefined}, time : {Undefined, "", "09:15"}]

Endpoints == {"cron", "test"}

TriggerInit ==
    /\ \E m \in TickMinutes : clock = FirstDay * 1440 + m
    /\ users = [u \in UserIds |->
                  IF u = "u1" THEN [exists |-> TRUE, walletBalance |-> 100]
                  ELSE NoUserDoc]
    /\ autoOrders = [a \in Range(AutoOrderIds) |->
                  IF a = "a1"
                  THEN NewAutoOrder("u1", 50, 2, "08:00", "daily", NoCustomDays)
                  ELSE NewAutoOrder("u1", 50, 1, "09:15", "daily", NoCustomDays)]
    /\ orders = <<>>
    /\ walletTransactions = <<>>
    /\ notifications = <<>>
    /\ autoOrderExecutions = <<>>
    /\ pass = [p \in Endpoints |-> IdlePass]
    /\ topUps = 0
    /\ funded = [u \in UserIds |-> users[u].walletBalance]
    /\ env \in [CRON_SECRET : {Undefined, "s3cret"},
                 NODE_ENV    : {"production", "development"}]
    /\ QuietFrontend

TriggerNext ==
    \/ \E req \in CronRequests : CronRequest(req)
    \/ \E req \in TestRequests : TestRequest(req)
    \/ TestRespond
    \/ \E p \in Endpoints : EvaluateCandidate(p)
    \/ \E p \in Endpoints : TransactionRead(p)
    \/ \E p \in Endpoints : TransactionCommit(p)
    \/ \E p \in Endpoints : FinishPass(p)

TriggerSpec == TriggerInit /\ [][TriggerNext]_vars

-----------------------------------------------------------------------------
(* The continuous-mode scheduler: cron.schedule("* * * * *", callback) calls
   the async callback once for every minute of the clock, whether or not the
   promise of an earlier call has settled; slots "timer" and "late" are two
   activations of the callback *)

TimerInvocations == {"timer", "late"}

InProgress(ps) == ps.pc \in {"loop", "tx", "commit"}

\* No activation of the callback has begun in the minute the clock shows.
TimerDue == \A q \in TimerInvocations : pass[q].pc = "idle" \/ pass[q].now < clock

\* The scheduler calls the callback, which calls executeAutoOrders(): slot
\* "late" stands for a call made while the pass of slot "timer" is under way.
TimerFires(p) ==
    /\ TimerDue
    /\ p = "late" => InProgress(pass["timer"])
    /\ StartPass(p)

SchedulerInit ==
    /\ clock = FirstDay * 1440 + 150
    /\ users = [u \in UserIds |->
                  IF u = "u1" THEN [exists |-> TRUE, walletBalance |-> 100]
                  ELSE NoUserDoc]
    /\ autoOrders = [a \in Range(AutoOrderIds) |->
                  IF a = "a1"
                  THEN NewAutoOrder("u1", 50, 2, "08:00", "daily", NoCustomDays)
                  ELSE NewAutoOrder("u1", 50, 1, "08:01", "daily", NoCustomDays)]
    /\ orders = <<>>
    /\ walletTransactions = <<>>
    /\ notifications = <<>>
    /\ autoOrderExecutions = <<>>
    /\ pass = [p \in TimerInvocations |-> IdlePass]
    /\ topUps = 0
    /\ funded = [u \in UserIds |-> users[u].walletBalance]
    /\ env = [CRON_SECRET |-> "s3cret", NODE_ENV |-> "production"]
    /\ QuietFrontend

SchedulerNext ==
    \/ \E p \in TimerInvocations : TimerFires(p)
    \/ \E p \in TimerInvocations : EvaluateCandidate(p)
    \/ \E p \in TimerInvocations : TransactionRead(p)
    \/ \E p \in TimerInvocations : TransactionCommit(p)
    \/ \E p \in TimerInvocations : FinishPass(p)
    \/ Tick
    \/ \E u \in UserIds : TopUp(u)

SchedulerSpec == SchedulerInit /\ [][SchedulerNext]_vars

-----------------------------------------------------------------------------
(* The Recurrence Evaluator on every rule and weekday: one recurring order of
   any rule and day set, met by one timer pass on any day of one week *)

VALID_DAYS == <<"Mon", "Tue", "Wed", "Thu", "Fri", "Sat", "Sun">>

\* The values the frequency field can hold: the three rules, a value that is
\* none of them, and no value.
Frequencies == {"daily", "weekdays", "custom", "monthly", Undefined}

\* The values the customDays field can hold: a list of days (any subset, in
\* week order), no value, or a value that is not a list.
CustomDaysValues ==
    {[isArray |-> TRUE, items |-> SelectSeq(VALID_DAYS, LAMBDA d : d \in D)] :
        D \in SUBSET Range(VALID_DAYS)}
    \cup {NoCustomDays, [isArray |-> FALSE, items |-> VALID_DAYS]}

RecurrenceInit ==
    /\ \E d \in 0..6 : clock = (FirstDay + d) * 1440 + 150
    /\ users = [u \in UserIds |->
                  IF u = "u1" THEN [exists |-> TRUE, walletBalance |-> 100]
                  ELSE NoUserDoc]
    /\ \E f \in Frequencies, cd \in CustomDaysValues :
         autoOrders = [a \in Range(AutoOrderIds) |->
                  IF a = "a1"
                  THEN NewAutoOrder("u1", 50, 2, "08:00", f, cd)
                  ELSE [NewAutoOrder("u1", 50, 1, "08:00", "daily", NoCustomDays)
                          EXCEPT !.status = "paused"]]
    /\ orders = <<>>
    /\ walletTransactions = <<>>
    /\ notifications = <<>>
    /\ autoOrderExecutions = <<>>
    /\ pass = [p \in {"timer"} |-> IdlePass]
    /\ topUps = 0
    /\ funded = [u \in UserIds |-> users[u].walletBalance]
    /\ env = [CRON_SECRET |-> "s3cret", NODE_ENV |-> "production"]
    /\ QuietFrontend

RecurrenceNext ==
    \/ StartPass("timer")
    \/ EvaluateCandidate("timer")
    \/ TransactionRead("timer")
    \/ TransactionCommit("timer")
    \/ FinishPass("timer")

RecurrenceSpec == RecurrenceInit /\ [][RecurrenceNext]_vars

-----------------------------------------------------------------------------
(* The Time Resolver on every instant: a timer pass begun at any minute of
   ResolverDays consecutive days, across the turn of a year and a leap day *)

ResolverFirstDay == 19721     \* 2023-12-30
ResolverDays == 64            \* up to 2024-03-02

ResolverInit ==
    /\ \E d \in ResolverFirstDay..(ResolverFirstDay + ResolverDays - 1), m \in 0..1439 :
         clock = d * 1440 + m
    /\ users = [u \in UserIds |-> NoUserDoc]
    /\ autoOrders = [a \in Range(AutoOrderIds) |->
                  [NewAutoOrder("u1", 50, 1, "08:00", "daily", NoCustomDays)
                     EXCEPT !.status = "paused"]]
    /\ orders = <<>>
    /\ walletTransactions = <<>>
    /\ notifications = <<>>
    /\ autoOrderExecutions = <<>>
    /\ pass = [p \in {"timer"} |-> IdlePass]
    /\ topUps = 0
    /\ funded = [u \in UserIds |-> 0]
    /\ env = [CRON_SECRET |-> "s3cret", NODE_ENV |-> "production"]
    /\ QuietFrontend

ResolverNext == StartPass("timer")

ResolverSpec == ResolverInit /\ [][ResolverNext]_vars

-----------------------------------------------------------------------------
(* The override time: in development the test endpoint is called with and
   without ?time=, while the timer runs its passes on the clock; a1 fires at
   09:15, a minute the clock does not reach, a2 on weekdays at 08:01 *)

OverrideRequests ==
    [authorization : {Undefined}, secret : {Undefined}, time : {Undefined, "08:01", "09:15"}]

OverrideSlots == {"test", "timer"}

OverrideInit ==
    /\ clock = FirstDay * 1440 + 150
    /\ users = [u \in UserIds |->
                  IF u = "u1" THEN [exists |-> TRUE, walletBalance |-> 200]
                  ELSE NoUserDoc]
    /\ autoOrders = [a \in Range(AutoOrderIds) |->
                  IF a = "a1"
                  THEN NewAutoOrder("u1", 50, 2, "09:15", "daily", NoCustomDays)
                  ELSE NewAutoOrder("u1", 50, 1, "08:01", "weekdays", NoCustomDays)]
    /\ orders = <<>>
    /\ walletTransactions = <<>>
    /\ notifications = <<>>
    /\ autoOrderExecutions = <<>>
    /\ pass = [p \in OverrideSlots |-> IdlePass]
    /\ topUps = 0
    /\ funded = [u \in UserIds |-> users[u].walletBalance]
    /\ env \in [CRON_SECRET : {"s3cret"}, NODE_ENV : {"production", "development"}]
    /\ QuietFrontend

OverrideNext ==
    \/ \E req \in OverrideRequests : TestRequest(req)
    \/ TestRespond
    \/ StartPass("timer")
    \/ \E p \in OverrideSlots : EvaluateCandidate(p)
    \/ \E p \in OverrideSlots : TransactionRead(p)
    \/ \E p \in OverrideSlots : TransactionCommit(p)
    \/ \E p \in OverrideSlots : FinishPass(p)
    \/ Tick

OverrideSpec == OverrideInit /\ [][OverrideNext]_vars

-----------------------------------------------------------------------------
(* The recurring-order endpoints.  A handler is one step, taken at its
   write: what it reads before (the token, the stored document, the catalog
   item) it reads in the same step. *)

VALID_FREQUENCIES == <<"daily", "weekdays", "custom">>

\* TIME_REGEX = /^([01]\d|2[0-3]):[0-5]\d$/ : the strings it accepts.
TimeStrings == {Pad2(h) \o ":" \o Pad2(m) : h \in 0..23, m \in 0..59}
TIME_REGEX(time) == time \in TimeStrings

\* getAuthenticatedUser(req): the uid of the caller's token, or none.
Callers == {"u1", "u2", Undefined}

NoDaysGiven_acceptsEmpty(customDays) == ~customDays.isArray

\* !customDays || !Array.isArray(customDays) || customDays.length === 0
NoDaysGiven(customDays) == ~customDays.isArray \/ customDays.items = <<>>

\* !customDays.every((d) => VALID_DAYS.includes(d))
SomeDayInvalid(customDays) ==
    \E i \in 1..Len(customDays.items) : customDays.items[i] \notin Range(VALID_DAYS)

\* A document that is not in the collection.
NoAutoOrder ==
    [NewAutoOrder(Undefined, 0, 0, Undefined, Undefined, NoCustomDays)
       EXCEPT !.exists = FALSE, !.status = Undefined]

\* POST /api/auto-orders: the status of the answer.
CreateStatus(uid, body) ==
    IF uid = Undefined THEN 401
    ELSE IF body.userId # uid THEN 403
    ELSE IF \/ body.itemId \in {Undefined, ""}
            \/ body.quantity \in {NoQuantity, 0}
            \/ body.time \in {Undefined, ""}
            \/ body.frequency \in {Undefined, ""} THEN 400
    ELSE IF body.quantity <= 0 THEN 400
    ELSE IF ~TIME_REGEX(body.time) THEN 400
    ELSE IF body.frequency \notin Range(VALID_FREQUENCIES) THEN 400
    ELSE IF body.frequency = "custom" /\ NoDaysGiven(body.customDays) THEN 400
    ELSE IF body.frequency = "custom" /\ SomeDayInvalid(body.customDays) THEN 400
    ELSE IF ~menuItems[body.itemId].exists THEN 404
    ELSE 200

\* POST /api/auto-orders: the checks, then autoOrderRef.set({...}) on a new
\* document id.
POST(uid, body) ==
    LET status == CreateStatus(uid, body) IN
    /\ IF status = 200
       THEN \E id \in {a \in Range(AutoOrderIds) : ~autoOrders[a].exists} :
              /\ autoOrders' = [autoOrders EXCEPT ![id] =
                    NewAutoOrder(body.userId, menuItems[body.itemId].price,
                                 body.quantity, body.time, body.frequency,
                                 IF body.frequency = "custom" THEN body.customDays
                                 ELSE NoCustomDays)]
              /\ api' = [endpoint |-> "POST", uid |-> uid, id |-> id,
                         body |-> body, status |-> status]
       ELSE /\ autoOrders' = autoOrders
            /\ api' = [endpoint |-> "POST", uid |-> uid, id |-> Undefined,
                       body |-> body, status |-> status]
    /\ UNCHANGED <<clock, users, orders, walletTransactions, notifications,
                   autoOrderExecutions, pass, topUps, funded, env,
                   menuItems, legacyAutoOrders, router>>

\* PATCH /api/auto-orders/:id : the status of the answer.
UpdateStatus(uid, id, body) ==
    IF uid = Undefined THEN 401
    ELSE IF ~autoOrders[id].exists THEN 404
    ELSE IF autoOrders[id].userId # uid THEN 403
    ELSE IF body.quantity # NoQuantity /\ body.quantity <= 0 THEN 400
    ELSE IF body.time # Undefined /\ ~TIME_REGEX(body.time) THEN 400
    ELSE IF body.frequency # Undefined
            /\ body.frequency \notin Range(VALID_FREQUENCIES) THEN 400
    ELSE IF body.frequency = "custom" /\ NoDaysGiven(body.customDays) THEN 400
    ELSE IF body.frequency = "custom" /\ SomeDayInvalid(body.customDays) THEN 400
    ELSE IF body.itemId # Undefined /\ ~menuItems[body.itemId].exists THEN 404
    ELSE 200

\* The updates object of PATCH, applied by docRef.update(updates).
ApplyUpdates(doc, body) ==
    [doc EXCEPT
        !.status     = IF body.status \in {"active", "paused"} THEN body.status ELSE @,
        !.quantity   = IF body.quantity # NoQuantity THEN body.quantity ELSE @,
        !.time       = IF body.time # Undefined THEN body.time ELSE @,
        !.frequency  = IF body.frequency # Undefined THEN body.frequency ELSE @,
        !.customDays = IF body.frequency = "custom" THEN body.customDays ELSE @,
        !.itemPrice  = IF body.itemId # Undefined THEN menuItems[body.itemId].price ELSE @]

\* PATCH /api/auto-orders/:id
PATCH(uid, id, body) ==
    LET status == UpdateStatus(uid, id, body) IN
    /\ autoOrders' = IF status = 200
                     THEN [autoOrders EXCEPT ![id] = ApplyUpdates(@, body)]
                     ELSE autoOrders
    /\ api' = [endpoint |-> "PATCH", uid |-> uid, id |-> id,
               body |-> body, status |-> status]
    /\ UNCHANGED <<clock, users, orders, walletTransactions, notifications,
                   autoOrderExecutions, pass, topUps, funded, env,
                   menuItems, legacyAutoOrders, router>>

\* DELETE /api/auto-orders/:id
DELETE(uid, id) ==
    LET status == IF uid = Undefined THEN 401
                  ELSE IF ~autoOrders[id].exists THEN 404
                  ELSE IF autoOrders[id].userId # uid THEN 403
                  ELSE 200
    IN
    /\ autoOrders' = IF status = 200
                     THEN [autoOrders EXCEPT ![id] = NoAutoOrder]
                     ELSE autoOrders
    /\ api' = [endpoint |-> "DELETE", uid |-> uid, id |-> id,
               body |-> NoBody, status |-> status]
    /\ UNCHANGED <<clock, users, orders, walletTransactions, notifications,
                   autoOrderExecutions, pass, topUps, funded, env,
                   menuItems, legacyAutoOrders, router>>

\* The earlier handlers of /api/auto-orders, on the collection "auto-orders":
\* they read no token, so uid is only who is calling.

\* {...data} spread over a stored document: the fields the body gives.
MergeLegacy(doc, data) ==
    [doc EXCEPT
        !.userId     = IF data.userId # Undefined THEN data.userId ELSE @,
        !.status     = IF data.status # Undefined THEN data.status ELSE @,
        !.frequency  = IF data.frequency # Undefined THEN data.frequency ELSE @,
        !.customDays = IF data.customDays # NoCustomDays THEN data.customDays ELSE @]

\* POST: collection("auto-orders").add({...data, status: "active", ...})
LegacyPOST(uid, data) ==
    /\ \E id \in {l \in LegacyIds : ~legacyAutoOrders[l].exists} :
         /\ legacyAutoOrders' = [legacyAutoOrders EXCEPT ![id] =
               [MergeLegacy(NoLegacyDoc, data) EXCEPT !.exists = TRUE,
                                                       !.status = "active"]]
         /\ api' = [endpoint |-> "legacy POST", uid |-> uid, id |-> id,
                    body |-> data, status |-> 200]
    /\ UNCHANGED <<clock, store, pass, topUps, funded, env, menuItems, router>>

\* PATCH ?id= : doc(id).update({...data, updatedAt}); no id is answered 400,
\* and update() of a missing document throws, which is answered 500.
LegacyPATCH(uid, id, data) ==
    LET status == IF id = Undefined THEN 400
                  ELSE IF ~legacyAutoOrders[id].exists THEN 500
                  ELSE 200
    IN
    /\ legacyAutoOrders' = IF status = 200
                           THEN [legacyAutoOrders EXCEPT ![id] = MergeLegacy(@, data)]
                           ELSE legacyAutoOrders
    /\ api' = [endpoint |-> "legacy PATCH", uid |-> uid, id |-> id,
               body |-> data, status |-> status]
    /\ UNCHANGED <<clock, store, pass, topUps, funded, env, menuItems, router>>

\* DELETE ?id= : doc(id).delete()
LegacyDELETE(uid, id) ==
    LET status == IF id = Undefined THEN 400 ELSE 200 IN
    /\ legacyAutoOrders' = IF status = 200
                           THEN [legacyAutoOrders EXCEPT ![id] = NoLegacyDoc]
                           ELSE legacyAutoOrders
    /\ api' = [endpoint |-> "legacy DELETE", uid |-> uid, id |-> id,
               body |-> NoBody, status |-> status]
    /\ UNCHANGED <<clock, store, pass, topUps, funded, env, menuItems, router>>

\* A list of days as the customDays of a body.
Days(items) == [isArray |-> TRUE, items |-> items]

\* The bodies sent to POST: two that are in order, and one for each check.
CreateBodies ==
    LET ok == [NoBody EXCEPT !.userId = "u2", !.itemId = "m1", !.quantity = 1,
                             !.time = "08:01", !.frequency = "daily"]
    IN  { ok,
          [ok EXCEPT !.frequency = "custom", !.customDays = Days(<<"Mon", "Wed">>)],
          [ok EXCEPT !.frequency = "custom", !.customDays = Days(<<>>)],
          [ok EXCEPT !.frequency = "custom", !.customDays = Days(<<"Mon", "Funday">>)],
          [ok EXCEPT !.quantity = 0],
          [ok EXCEPT !.time = "8:01"],
          [ok EXCEPT !.frequency = "monthly"],
          [ok EXCEPT !.itemId = "m9"] }

\* The bodies sent to PATCH: one per field, in order and not.
UpdateBodies ==
    { [NoBody EXCEPT !.status = "paused"],
      [NoBody EXCEPT !.quantity = 0],
      [NoBody EXCEPT !.time = "25:00"],
      [NoBody EXCEPT !.frequency = "hourly"],
      [NoBody EXCEPT !.frequency = "custom", !.customDays = Days(<<"Tue">>)],
      [NoBody EXCEPT !.frequency = "custom", !.customDays = Days(<<>>)],
      [NoBody EXCEPT !.frequency = "custom", !.customDays = Days(<<"Tue", "Funday">>)],
      [NoBody EXCEPT !.itemId = "m1"],
      [NoBody EXCEPT !.itemId = "m9"] }

\* The bodies sent to the earlier handlers.
LegacyBodies ==
    { [NoBody EXCEPT !.userId = "u2", !.frequency = "daily"],
      [NoBody EXCEPT !.frequency = "custom"] }

\* The store when the endpoints are exercised: u1 owns the daily order a1,
\* a2 is free, and u1 owns the document l1 of the earlier collection.
OrdersInit ==
    /\ clock = FirstDay * 1440 + 150
    /\ users = [u \in UserIds |-> [exists |-> TRUE, walletBalance |-> 100]]
    /\ autoOrders = [a \in Range(AutoOrderIds) |->
                  IF a = "a1"
                  THEN NewAutoOrder("u1", 50, 2, "08:00", "daily", NoCustomDays)
                  ELSE NoAutoOrder]
    /\ orders = <<>>
    /\ walletTransactions = <<>>
    /\ notifications = <<>>
    /\ autoOrderExecutions = <<>>
    /\ pass = [p \in {"timer"} |-> IdlePass]
    /\ topUps = 0
    /\ funded = [u \in UserIds |-> users[u].walletBalance]
    /\ env = [CRON_SECRET |-> "s3cret", NODE_ENV |-> "production"]
    /\ menuItems = [m \in MenuItemIds |->
                      IF m = "m1" THEN [exists |-> TRUE, price |-> 60, changedAt |-> NoTime]
                      ELSE [exists |-> FALSE, price |-> 0, changedAt |-> NoTime]]
    /\ legacyAutoOrders = [l \in LegacyIds |->
                      [exists |-> TRUE, userId |-> "u1", status |-> "active",
                       frequency |-> "daily", customDays |-> NoCustomDays]]
    /\ api = NoCall
    /\ QuietRouter

OrdersNext ==
    \/ \E uid \in Callers, body \in CreateBodies : POST(uid, body)
    \/ \E uid \in Callers, id \in Range(AutoOrderIds), body \in UpdateBodies :
         PATCH(uid, id, body)
    \/ \E uid \in Callers, id \in Range(AutoOrderIds) : DELETE(uid, id)
    \/ \E uid \in Callers, data \in LegacyBodies : LegacyPOST(uid, data)
    \/ \E uid \in Callers, id \in LegacyIds \cup {Undefined}, data \in LegacyBodies :
         LegacyPATCH(uid, id, data)
    \/ \E uid \in Callers, id \in LegacyIds \cup {Undefined} : LegacyDELETE(uid, id)

OrdersSpec == OrdersInit /\ [][OrdersNext]_vars

-----------------------------------------------------------------------------
(* A standing order, its owner and the catalog *)

CatalogPrices == {50, 60}

\* The admin page saves an edited item: PUT /api/admin/menu with the new price.
SetPrice(m, price) ==
    /\ menuItems[m].exists
    /\ menuItems' = [menuItems EXCEPT ![m].price = price, ![m].changedAt = clock]
    /\ UNCHANGED <<clock, store, pass, topUps, funded, env, legacyAutoOrders, api, router>>

\* What the owner sends while the order stands: pause, resume, and the item
\* selected again.
StandingBodies ==
    { [NoBody EXCEPT !.status = "paused"],
      [NoBody EXCEPT !.status = "active"],
      [NoBody EXCEPT !.itemId = "m1"] }

StandingSlots == {"timer"}

\* u1 holds 300 and the daily order a1 of 2 x 50 at 08:00, created when the
\* item m1 cost 50; it is 07:59.
StandingInit ==
    /\ clock = FirstDay * 1440 + 149
    /\ users = [u \in UserIds |->
                  IF u = "u1" THEN [exists |-> TRUE, walletBalance |-> 300]
                  ELSE NoUserDoc]
    /\ autoOrders = [a \in Range(AutoOrderIds) |->
                  IF a = "a1"
                  THEN NewAutoOrder("u1", 50, 2, "08:00", "daily", NoCustomDays)
                  ELSE NoAutoOrder]
    /\ orders = <<>>
    /\ walletTransactions = <<>>
    /\ notifications = <<>>
    /\ autoOrderExecutions = <<>>
    /\ pass = [p \in StandingSlots |-> IdlePass]
    /\ topUps = 0
    /\ funded = [u \in UserIds |-> users[u].walletBalance]
    /\ env = [CRON_SECRET |-> "s3cret", NODE_ENV |-> "production"]
    /\ QuietFrontend

StandingNext ==
    \/ StartPass("timer")
    \/ EvaluateCandidate("timer")
    \/ TransactionRead("timer")
    \/ TransactionCommit("timer")
    \/ FinishPass("timer")
    \/ Tick
    \/ \E price \in CatalogPrices : SetPrice("m1", price)
    \/ \E body \in StandingBodies : PATCH("u1", "a1", body)

StandingSpec == StandingInit /\ [][StandingNext]_vars

-----------------------------------------------------------------------------
(* The AI router.  A step runs the synchronous code of a call from one await
   to the next: Date.now() is the clock, in minutes. *)

MaxWait == 5       \* minutes the router is followed for

\* isCircuitAvailable(provider, keyIndex, config): what it returns.
isCircuitAvailable(breakers, provider, keyIndex, config) ==
    LET state == breakers[CircuitKey(provider, keyIndex)] IN
    \/ ~state.isOpen
    \/ (clock - state.lastFailureAt) * 60000 >= config.cooldownMs

\* isCircuitAvailable returning true: what it leaves in the Map.
CircuitChecked(breakers, provider, keyIndex) ==
    [breakers EXCEPT ![CircuitKey(provider, keyIndex)] =
        IF @.isOpen THEN [@ EXCEPT !.failures = 0, !.isOpen = FALSE] ELSE @]

recordFailure(breakers, provider, keyIndex, config) ==
    [breakers EXCEPT ![CircuitKey(provider, keyIndex)] =
        [failures      |-> @.failures + 1,
         lastFailureAt |-> clock,
         isOpen        |-> @.isOpen \/ @.failures + 1 >= config.maxFailuresBeforeBreak]]

recordSuccess(breakers, provider, keyIndex) ==
    [breakers EXCEPT ![CircuitKey(provider, keyIndex)] =
        [@ EXCEPT !.failures = 0, !.isOpen = FALSE]]

\* The two nested for loops of runTextAI and of phase 1 of runVisionAI, run
\* from (pi, ki, retriesUsed) to the next key that is attempted, if any.
RECURSIVE NextAttempt(_, _, _, _, _, _)
NextAttempt(breakers, phase, pi, ki, retriesUsed, cfg) ==
    IF pi > Len(PROVIDER_ORDER)
    THEN [found |-> FALSE, pi |-> pi, ki |-> 0, retriesUsed |-> 0]
    ELSE LET provider == PROVIDER_ORDER[pi] IN
         IF \/ getKeysForProvider(provider) = 0
            \/ ~Supports(provider, phase)
            \/ ~(ki < getKeysForProvider(provider) /\ retriesUsed < cfg.maxRetriesPerProvider)
         THEN NextAttempt(breakers, phase, pi + 1, 0, 0, cfg)
         ELSE IF ~isCircuitAvailable(breakers, provider, ki, cfg)
         THEN NextAttempt(breakers, phase, pi, ki + 1, retriesUsed, cfg)
         ELSE [found |-> TRUE, pi |-> pi, ki |-> ki, retriesUsed |-> retriesUsed]

\* The answer when every loop is over.
Exhausted == [success |-> FALSE, provider |-> "none", reason |-> "ALL_PROVIDERS_EXHAUSTED"]

\* Call c runs on from (pi, ki, retriesUsed) of its loops, with the Map as
\* breakers, up to its next await or its return.
RunOn(c, call, breakers, phase, pi, ki, retriesUsed) ==
    LET n == NextAttempt(breakers, phase, pi, ki, retriesUsed, DEFAULT_CONFIG) IN
    IF n.found
    THEN /\ circuitBreakers' = CircuitChecked(breakers, PROVIDER_ORDER[n.pi], n.ki)
         /\ aiCalls' = [aiCalls EXCEPT ![c] =
               [call EXCEPT !.phase = phase, !.pc = "await",
                            !.pi = n.pi, !.ki = n.ki,
                            !.retriesUsed = n.retriesUsed + 1,
                            !.attempts[n.pi] = @ + 1]]
    ELSE /\ circuitBreakers' = breakers
         /\ aiCalls' = [aiCalls EXCEPT ![c] =
               IF phase = "vision"
               THEN [call EXCEPT !.phase = "ocr", !.pc = "ocr"]
               ELSE [call EXCEPT !.phase = phase, !.pc = "done", !.result = Exhausted]]

\* runTextAI(prompt, systemPrompt) is called, as llm.ts does.
runTextAI(c) ==
    /\ aiCalls[c].pc \in {"idle", "done"}
    /\ RunOn(c, [IdleCall EXCEPT !.fn = "runTextAI"], circuitBreakers, "text", 1, 0, 0)
    /\ UNCHANGED <<clock, store, pass, topUps, funded, env, menuItems, legacyAutoOrders, api>>

\* runVisionAI(base64Image, mimeType, prompt) is called, as ai-menu-parser.ts
\* does.
runVisionAI(c) ==
    /\ aiCalls[c].pc \in {"idle", "done"}
    /\ RunOn(c, [IdleCall EXCEPT !.fn = "runVisionAI"], circuitBreakers, "vision", 1, 0, 0)
    /\ UNCHANGED <<clock, store, pass, topUps, funded, env, menuItems, legacyAutoOrders, api>>

\* What the awaited generateText / generateFromImage comes to: a text, a
\* blank, an error, or an error that isAuthError recognises.
AttemptOutcomes == {"text", "blank", "throws", "throws 401"}

\* The provider answers the attempt call c awaits.
AttemptSettles(c, outcome) ==
    LET call     == aiCalls[c]
        provider == PROVIDER_ORDER[call.pi]
        failed   == recordFailure(circuitBreakers, provider, call.ki, DEFAULT_CONFIG)
    IN
    /\ call.pc = "await"
    /\ CASE outcome = "text" ->
              /\ circuitBreakers' = recordSuccess(circuitBreakers, provider, call.ki)
              /\ aiCalls' = [aiCalls EXCEPT ![c] =
                    [call EXCEPT !.pc = "done",
                                 !.result = [success  |-> TRUE,
                                             provider |-> IF call.fn = "runVisionAI" /\ call.phase = "text"
                                                          THEN provider \o " (via OCR)"
                                                          ELSE provider,
                                             reason   |-> "none"]]]
         [] outcome = "blank" ->
              RunOn(c, call, circuitBreakers, call.phase, call.pi, call.ki + 1, call.retriesUsed)
         [] outcome = "throws" ->
              RunOn(c, call, failed, call.phase, call.pi, call.ki + 1, call.retriesUsed)
         [] outcome = "throws 401" ->
              RunOn(c, call, failed, call.phase, call.pi + 1, 0, 0)
    /\ UNCHANGED <<clock, store, pass, topUps, funded, env, menuItems, legacyAutoOrders, api>>

\* What the awaited extractTextFromImage comes to.
OcrOutcomes == {"text", "short", "throws"}

\* Phase 2 and 3 of runVisionAI: the OCR answers, and on a usable text
\* runTextAI(ocrPrompt) is called.
OcrSettles(c, outcome) ==
    LET call == aiCalls[c] IN
    /\ call.pc = "ocr"
    /\ IF outcome = "text"
       THEN RunOn(c, call, circuitBreakers, "text", 1, 0, 0)
       ELSE /\ circuitBreakers' = circuitBreakers
            /\ aiCalls' = [aiCalls EXCEPT ![c] =
                  [call EXCEPT !.pc = "done",
                               !.result = [success |-> FALSE, provider |-> "none",
                                           reason |-> "OCR_FAILED"]]]
    /\ UNCHANGED <<clock, store, pass, topUps, funded, env, menuItems, legacyAutoOrders, api>>

\* Time passes for the router.
Wait ==
    /\ \E d \in {4, 5} :
         /\ clock + d <= FirstDay * 1440 + 149 + MaxWait
         /\ clock' = clock + d
    /\ UNCHANGED <<store, pass, topUps, funded, env, rest>>

RouterNext ==
    \/ \E c \in AiCallIds : runTextAI(c)
    \/ \E c \in AiCallIds : runVisionAI(c)
    \/ \E c \in AiCallIds, outcome \in AttemptOutcomes : AttemptSettles(c, outcome)
    \/ \E c \in AiCallIds, outcome \in OcrOutcomes : OcrSettles(c, outcome)
    \/ Wait

RouterSpec == StandingInit /\ [][RouterNext]_vars

-----------------------------------------------------------------------------
(* Vocabulary of the properties *)

DateOf(t) == getIST(t).dateStr

Total(autoOrder) == autoOrder.itemPrice * autoOrder.quantity

\* Pass p takes a step of its own (another pass's commit only sets p.stale).
OwnStep(p) == pass'[p].pc # pass[p].pc \/ pass'[p].idx # pass[p].idx

\* Pass p begins in this step.
StartsPass(p) ==
    /\ pass[p].pc \in {"idle", "done"}
    /\ pass'[p].pc \in {"loop", "done"}
    /\ pass'[p] # pass[p]

\* Pass p concludes a candidate in this step, with the per-item error err.
ConcludesWith(p, err) ==
    /\ Len(pass'[p].outcomes) = Len(pass[p].outcomes) + 1
    /\ pass'[p].outcomes[Len(pass'[p].outcomes)].error = err

RECURSIVE SumAmounts(_)
SumAmounts(txns) ==
    IF txns = <<>> THEN 0 ELSE Head(txns).amount + SumAmounts(Tail(txns))

\* The sum of the ledger debits of user u.
Debited(u) ==
    SumAmounts(SelectSeq(walletTransactions,
                         LAMBDA t : t.userId = u /\ t.type = "debit"))

Indices(seq, Test(_)) == {i \in 1..Len(seq) : Test(seq[i])}

-----------------------------------------------------------------------------
(* C1 .. C10 *)

\* C1: however two passes overlap, a recurring order gets at most one Order
\* (and with it one ledger debit) per local calendar date.
C1_OncePerDayUnderOverlap ==
    \A i, j \in 1..Len(orders) :
        ( /\ orders[i].autoOrderId = orders[j].autoOrderId
          /\ DateOf(orders[i].createdAt) = DateOf(orders[j].createdAt) )
        => i = j

\* C2: when a pass begins after a pass of the same local date and fire time
\* has ended, every still-active order for which the ended pass ran the
\* materializer to a decision (success or insufficient balance) has exactly
\* one ExecutionAttempt of that date and is skipped by the new pass.
C2_LaterPassSkips ==
    [][\A p, q \in Passes :
        ( /\ StartsPass(p)
          /\ pass[q].pc = "done"
          /\ pass[q].ist.dateStr = pass'[p].ist.dateStr
          /\ pass[q].queryTime = pass'[p].queryTime )
        => \A e \in Range(pass[q].outcomes) :
             ( /\ e.outcome # "skipped"
               /\ e.error \in {"none", "INSUFFICIENT_BALANCE"}
               /\ autoOrders[e.id].status = "active" )
             => /\ Cardinality(Indices(autoOrderExecutions,
                      LAMBDA x : /\ x.autoOrderId = e.id
                                 /\ DateOf(x.executedAt) = pass[q].ist.dateStr)) = 1
                /\ \A i \in 1..Len(pass'[p].snapshot) :
                      pass'[p].snapshot[i].id = e.id
                      => \/ ~shouldRun(pass'[p].snapshot[i].data, pass'[p].ist.day)
                         \/ alreadyRanToday(pass'[p].snapshot[i].data, pass'[p].ist.dateStr)
      ]_vars

\* C3: a wallet is never negative and always equals what was paid in minus
\* the committed debits, and a debit commits only against a balance that
\* covers it at the moment of the commit.
C3_WalletDebitsIsolated ==
    /\ [](\A u \in UserIds :
            /\ users[u].walletBalance >= 0
            /\ users[u].walletBalance = funded[u] - Debited(u))
    /\ [][Len(walletTransactions') = Len(walletTransactions) + 1
          => LET t == walletTransactions'[Len(walletTransactions')] IN
             /\ users[t.userId].walletBalance >= t.amount
             /\ users'[t.userId].walletBalance = users[t.userId].walletBalance - t.amount
       ]_vars

\* C3 witness: a transaction that read a covering balance is about to commit
\* after a concurrent debit has left less than its total.
C3_Witness ==
    \E p \in Passes :
        /\ pass[p].pc = "commit"
        /\ pass[p].stale
        /\ pass[p].userDoc.walletBalance >= Total(CurrentItem(pass[p]).data)
        /\ users[CurrentItem(pass[p]).data.userId].walletBalance
              < Total(CurrentItem(pass[p]).data)
        /\ Len(walletTransactions) >= 1

\* C4: when the materializer finds the balance below the total, the store
\* afterwards holds a new failed ExecutionAttempt with the reason text, and
\* the order has lastExecutedDate = today and one more failure counted.
C4_InsufficientBalanceCommits ==
    [][\A p \in Passes :
        ( pass[p].pc = "tx" /\ ConcludesWith(p, "INSUFFICIENT_BALANCE") )
        => LET item == CurrentItem(pass[p])
               bal  == users[item.data.userId].walletBalance
           IN
           /\ Len(autoOrderExecutions') = Len(autoOrderExecutions) + 1
           /\ LET x == autoOrderExecutions'[Len(autoOrderExecutions')] IN
              /\ x.autoOrderId = item.id
              /\ ~x.success
              /\ x.failureReason = "Insufficient balance: ₹" \o ToString(bal)
                                   \o " < ₹" \o ToString(Total(item.data))
           /\ autoOrders'[item.id].lastExecutedDate = pass[p].ist.dateStr
           /\ autoOrders'[item.id].totalFailures = autoOrders[item.id].totalFailures + 1
      ]_vars

\* C5: when a pass begins after a pass of the same local date has ended with
\* an insufficient-balance attempt for an order, the new pass finds that
\* order marked as run today, and so skips it whatever the wallet now holds.
C5_SilencedAfterInsufficient ==
    [][\A p, q \in Passes :
        ( /\ StartsPass(p)
          /\ pass[q].pc = "done"
          /\ pass[q].ist.dateStr = pass'[p].ist.dateStr )
        => \A e \in Range(pass[q].outcomes) :
             e.error = "INSUFFICIENT_BALANCE"
             => \A i \in 1..Len(pass'[p].snapshot) :
                   pass'[p].snapshot[i].id = e.id
                   => alreadyRanToday(pass'[p].snapshot[i].data, pass'[p].ist.dateStr)
      ]_vars

\* C6: a step of a transaction whose user's balance is below the total
\* changes no user document and adds no Order, ledger entry or notification.
C6_InsufficientLeavesNoTrace ==
    [][\A p \in Passes :
        ( /\ pass[p].pc \in {"tx", "commit"}
          /\ OwnStep(p)
          /\ users[CurrentItem(pass[p]).data.userId].exists
          /\ users[CurrentItem(pass[p]).data.userId].walletBalance
                < Total(CurrentItem(pass[p]).data) )
        => /\ users' = users
           /\ orders' = orders
           /\ walletTransactions' = walletTransactions
           /\ notifications' = notifications
      ]_vars

\* C6 witness: an attempt has ended in insufficient balance.
C6_Witness ==
    \E p \in Passes : \E e \in Range(pass[p].outcomes) :
        e.error = "INSUFFICIENT_BALANCE"

\* C7: Orders, ledger debits, notifications and successful ExecutionAttempts
\* are created together, one of each per success, and per recurring order
\* their number is its success counter; every Order is pending, paid by
\* wallet, with total = unit price x quantity, and its creation lowers the
\* owner's wallet by exactly that total.
C7_SuccessWritesAllOrNothing ==
    /\ [](LET succ == SelectSeq(autoOrderExecutions, LAMBDA x : x.success) IN
          /\ Len(walletTransactions) = Len(orders)
          /\ Len(notifications) = Len(orders)
          /\ Len(succ) = Len(orders)
          /\ \A i \in 1..Len(orders) :
               LET o == orders[i] IN
               /\ o.status = "pending"
               /\ o.paymentMode = "Wallet"
               /\ o.total = o.items[1].price * o.items[1].quantity
               /\ walletTransactions[i].userId = o.userId
               /\ walletTransactions[i].type = "debit"
               /\ walletTransactions[i].amount = o.total
               /\ walletTransactions[i].orderId = o.orderId
               /\ notifications[i].userId = o.userId
               /\ notifications[i].orderId = o.orderId
               /\ succ[i].autoOrderId = o.autoOrderId
               /\ succ[i].orderId = o.orderId
               /\ succ[i].amountDeducted = o.total
          /\ \A a \in Range(AutoOrderIds) :
               autoOrders[a].totalExecutions
                  = Cardinality(Indices(orders, LAMBDA o : o.autoOrderId = a)))
    /\ [][\A p \in Passes :
            ( OwnStep(p) /\ pass'[p].succeeded = pass[p].succeeded + 1 )
            => LET item == CurrentItem(pass[p])
                   u    == item.data.userId
               IN
               /\ Len(orders') = Len(orders) + 1
               /\ orders'[Len(orders')].autoOrderId = item.id
               /\ orders'[Len(orders')].total = Total(item.data)
               /\ users'[u].walletBalance = users[u].walletBalance - Total(item.data)
       ]_vars

\* C7 witness: the order of 2 x 50 has run once against a wallet of 200.
C7_Witness ==
    /\ Len(orders) = 1
    /\ orders[1].autoOrderId = "a1"
    /\ orders[1].total = 100
    /\ funded["u1"] = 200
    /\ users["u1"].walletBalance = 100
    /\ autoOrders["a1"].totalExecutions = 1

\* C8: a transaction step taken while the owning user document is missing
\* writes nothing, counts the item as failed and, unless the storage layer
\* itself failed, records the error "<id>: user not found".
C8_UserNotFoundNoSideEffects ==
    [][\A p \in Passes :
        ( /\ pass[p].pc = "tx"
          /\ OwnStep(p)
          /\ ~users[CurrentItem(pass[p]).data.userId].exists )
        => LET id == CurrentItem(pass[p]).id IN
           /\ store' = store
           /\ pass'[p].failed = pass[p].failed + 1
           /\ \/ ConcludesWith(p, "USER_NOT_FOUND")
              \/ \E msg \in UnexpectedErrors : ConcludesWith(p, msg)
           /\ ( ConcludesWith(p, "USER_NOT_FOUND") /\ IsEngine(p) )
              => pass'[p].errors = Append(pass[p].errors, id \o ": user not found")
      ]_vars

\* C8 witness: an attempt has ended in user-not-found.
C8_Witness ==
    \E p \in Passes : \E e \in Range(pass[p].outcomes) :
        e.error = "USER_NOT_FOUND"

\* C9: in a pass the candidates are concluded one by one in snapshot order,
\* each exactly once, whatever the earlier ones ended in; the summary counts
\* every failed one, and the engine lists one error per failed one.
C9_FailureIsolatedPerItem ==
    \A p \in Passes :
        LET ps == pass[p] IN
        /\ ps.pc \in {"loop", "tx", "commit"}
           => /\ Len(ps.outcomes) = ps.idx - 1
              /\ ps.idx - 1 <= Len(ps.snapshot)
              /\ \A k \in 1..Len(ps.outcomes) : ps.outcomes[k].id = ps.snapshot[k].id
        /\ ( ps.pc = "done" /\ "candidates" \in DOMAIN ps.result /\ ps.result.success )
           => /\ ps.result.candidates = Len(ps.outcomes)
              /\ \A k, l \in 1..Len(ps.outcomes) :
                    ps.outcomes[k].id = ps.outcomes[l].id => k = l
              /\ ps.result.failed
                    = Cardinality(Indices(ps.outcomes, LAMBDA e : e.outcome = "failed"))
              /\ IsEngine(p) => Len(ps.result.errors) = ps.result.failed

\* C9 witness: a pass has ended whose first candidate failed and whose
\* second candidate was evaluated and succeeded.
C9_Witness ==
    \E p \in Passes :
        /\ pass[p].pc = "done"
        /\ Len(pass[p].outcomes) = 2
        /\ pass[p].outcomes[1].outcome = "failed"
        /\ pass[p].outcomes[2].outcome = "succeeded"

\* C10: when the candidate query of executeAutoOrders fails, the pass ends in
\* that step with success = false, all five counts 0 and a message, and the
\* store is as it was.
C10_QueryFailureIsBatchFatal ==
    [][\A p \in Passes :
        ( /\ IsEngine(p)
          /\ StartsPass(p)
          /\ pass'[p].pc = "done"
          /\ ~pass'[p].result.success )
        => LET r == pass'[p].result IN
           /\ store' = store
           /\ r.candidates = 0 /\ r.skipped = 0 /\ r.processed = 0
           /\ r.succeeded = 0 /\ r.failed = 0
           /\ r.message \in UnexpectedErrors
           /\ r.errors = <<r.message>>
      ]_vars

\* C10 witness: a pass of the engine has ended in a batch-level failure.
C10_Witness ==
    \E p \in Passes :
        /\ IsEngine(p)
        /\ pass[p].pc = "done"
        /\ "errors" \in DOMAIN pass[p].result
        /\ ~pass[p].result.success

-----------------------------------------------------------------------------
(* C11 .. C20 *)

\* The weekday of a day number, counted from 2024-01-01, a Monday.
WeekdayOf(dayN) == VALID_DAYS[((dayN - 19723) % 7) + 1]

\* Pass p decides on its current candidate in this step; Fires: it goes on to
\* the transaction; SkipsIt: it counts the candidate as skipped.
Decides(p) == pass[p].pc = "loop" /\ OwnStep(p) /\ pass'[p].pc # "done"
Fires(p) == pass'[p].pc = "tx"
SkipsIt(p) ==
    /\ pass'[p].pc = "loop"
    /\ pass'[p].skipped = pass[p].skipped + 1
    /\ pass'[p].idx = pass[p].idx + 1

\* C11: for an order that has not run today, the decision of the evaluator
\* is the reference rule: daily fires on every weekday, weekdays fires
\* exactly on Mon..Fri, custom with day list D fires exactly on the days of D.
C11_RecurrenceMatchesReference ==
    [][\A p \in DOMAIN pass :
        ( Decides(p)
          /\ CurrentItem(pass[p]).data.lastExecutedDate # pass[p].ist.dateStr )
        => LET a   == CurrentItem(pass[p]).data
               day == WeekdayOf((pass[p].now + IST_OFFSET_MIN) \div 1440)
           IN
           /\ Fires(p) \/ SkipsIt(p)
           /\ a.frequency = "daily" => Fires(p)
           /\ a.frequency = "weekdays" => (Fires(p) <=> day \notin {"Sat", "Sun"})
           /\ ( a.frequency = "custom" /\ a.customDays.isArray )
              => (Fires(p) <=> \E i \in 1..Len(a.customDays.items) :
                                  a.customDays.items[i] = day)
      ]_vars

\* C11 witness: a custom order listing Tue and Sat has fired on a Saturday.
C11_Witness ==
    /\ pass["timer"].pc = "tx"
    /\ pass["timer"].ist.day = "Sat"
    /\ CurrentItem(pass["timer"]).data.frequency = "custom"
    /\ CurrentItem(pass["timer"]).data.customDays.items = <<"Tue", "Sat">>

\* An order whose rule is none of the three, or is custom without a list.
Unrecognised(a) ==
    \/ a.frequency \notin {"daily", "weekdays", "custom"}
    \/ a.frequency = "custom" /\ ~a.customDays.isArray

\* C12: an order with an unrecognised rule is skipped whenever a pass
\* decides on it, no transaction is ever started for it, and nothing is
\* ever written for it.
C12_UnrecognisedRuleNeverFires ==
    /\ [][\A p \in DOMAIN pass :
            ( Decides(p) /\ Unrecognised(CurrentItem(pass[p]).data) )
            => SkipsIt(p) /\ store' = store
       ]_vars
    /\ [](\A p \in DOMAIN pass :
            pass[p].pc \in {"tx", "commit"}
            => ~Unrecognised(CurrentItem(pass[p]).data))
    /\ [](\A a \in Range(AutoOrderIds) :
            Unrecognised(autoOrders[a])
            => /\ autoOrders[a].lastExecutedDate = Undefined
               /\ \A i \in 1..Len(autoOrderExecutions) :
                     autoOrderExecutions[i].autoOrderId # a)

\* C12 witness: a pass has ended having skipped an order whose rule is
\* "monthly", on a Wednesday.
C12_Witness ==
    /\ pass["timer"].pc = "done"
    /\ pass["timer"].ist.day = "Wed"
    /\ autoOrders["a1"].frequency = "monthly"
    /\ pass["timer"].outcomes = <<[id |-> "a1", outcome |-> "skipped", error |-> "none"]>>

\* The calendar months the resolver is checked on, each with the day number
\* of its first day.
RefMonths ==
    <<[year |-> 2023, month |-> 12, first |-> 19692, len |-> 31],
      [year |-> 2024, month |-> 1,  first |-> 19723, len |-> 31],
      [year |-> 2024, month |-> 2,  first |-> 19754, len |-> 29],
      [year |-> 2024, month |-> 3,  first |-> 19783, len |-> 31]>>

RefTwoDigits(n) == ToString(n \div 10) \o ToString(n % 10)

\* The calendar date of a day number as YYYY-MM-DD, read off RefMonths.
RefDate(dayN) ==
    LET k == CHOOSE i \in 1..Len(RefMonths) :
                 /\ RefMonths[i].first <= dayN
                 /\ dayN < RefMonths[i].first + RefMonths[i].len
    IN  ToString(RefMonths[k].year) \o "-" \o RefTwoDigits(RefMonths[k].month)
           \o "-" \o RefTwoDigits(dayN - RefMonths[k].first + 1)

\* C13: what a pass resolves from the instant it reads (UTC minute m of day
\* d) is that instant shifted by 330 minutes: the time is (m + 330) mod 1440
\* as zero-padded HH:MM, and date and weekday are those of day d + 1 when
\* m + 330 >= 1440 and of day d otherwise.
C13_ResolverShiftsByFiveThirty ==
    \A p \in DOMAIN pass :
        pass[p].pc # "idle"
        => LET d     == pass[p].now \div 1440
               m     == pass[p].now % 1440
               local == (m + 330) % 1440
               day   == IF m + 330 >= 1440 THEN d + 1 ELSE d
           IN
           /\ pass[p].ist.time = RefTwoDigits(local \div 60) \o ":"
                                    \o RefTwoDigits(local % 60)
           /\ pass[p].ist.day = WeekdayOf(day)
           /\ pass[p].ist.dateStr = RefDate(day)

\* C13 witness: the instant 2024-02-28T20:05Z resolved to 01:35 on Thursday
\* 2024-02-29.
C13_Witness ==
    /\ pass["timer"].pc = "done"
    /\ pass["timer"].now = 19781 * 1440 + 1205
    /\ pass["timer"].ist = [time |-> "01:35", day |-> "Thu", dateStr |-> "2024-02-29"]

\* The pass that begins in this step ends at once in the outer catch.
QueryFailed(p) ==
    /\ pass'[p].pc = "done"
    /\ IF IsEngine(p) THEN ~pass'[p].result.success
       ELSE pass'[p].result.status = 500

\* C14: the candidates of a pass that resolves its time from the clock are
\* exactly the active orders whose fire time is the resolved local minute,
\* so whatever a pass creates or records for an order carries an instant of
\* the order's own fire minute: a minute that no pass served is not made up
\* for by a pass of a later minute.
C14_ExactMinuteNoCatchUp ==
    /\ [][\A p \in Passes :
            ( StartsPass(p) /\ ~QueryFailed(p) )
            => {pass'[p].snapshot[i].id : i \in 1..Len(pass'[p].snapshot)}
                 = {a \in Range(AutoOrderIds) :
                       /\ autoOrders[a].status = "active"
                       /\ autoOrders[a].time
                            = RefTwoDigits(((clock + 330) % 1440) \div 60) \o ":"
                              \o RefTwoDigits((clock + 330) % 60)}
       ]_vars
    /\ [][Len(orders') > Len(orders)
          => LET o == orders'[Len(orders')] IN
             getIST(o.createdAt).time = autoOrders[o.autoOrderId].time]_vars
    /\ [][Len(autoOrderExecutions') > Len(autoOrderExecutions)
          => LET x == autoOrderExecutions'[Len(autoOrderExecutions')] IN
             getIST(x.executedAt).time = autoOrders[x.autoOrderId].time]_vars

\* C14 witness: the timer pass of 08:01 on the first day found no candidate
\* although the 08:00 order a1 had not run, and a1 ran at 08:00 the day after.
C14_Witness ==
    /\ pass["timer"].pc = "done"
    /\ pass["timer"].now = FirstDay * 1440 + 151
    /\ pass["timer"].result.candidates = 0
    /\ Len(orders) = 1
    /\ orders[1].autoOrderId = "a1"
    /\ orders[1].createdAt = (FirstDay + 1) * 1440 + 150
    /\ Len(autoOrderExecutions) = 1

\* C15: when a pass decides on a candidate whose rule does not fire today or
\* whose lastExecutedDate is today, the step writes nothing to the store,
\* adds one to skipped and leaves processed, succeeded and failed as they
\* were; and a candidate is counted as skipped in no other case.
C15_SkippedCandidateWritesNothing ==
    [][\A p \in Passes :
        Decides(p)
        => LET a       == CurrentItem(pass[p]).data
               notDue  == ~shouldRun(a, WeekdayOf((pass[p].now + 330) \div 1440))
               ranToday == a.lastExecutedDate = DateOf(pass[p].now)
           IN
           /\ SkipsIt(p) <=> (notDue \/ ranToday)
           /\ SkipsIt(p)
              => /\ store' = store
                 /\ pass'[p].processed = pass[p].processed
                 /\ pass'[p].succeeded = pass[p].succeeded
                 /\ pass'[p].failed = pass[p].failed
                 /\ pass'[p].errors = pass[p].errors
      ]_vars

\* C15 witness: on the Saturday a pass has skipped both candidates, a1
\* because it had run that day and a2 because its rule is weekdays.
C15_Witness ==
    \E p \in Passes :
        /\ pass[p].pc = "done"
        /\ pass[p].ist.day = "Sat"
        /\ autoOrders["a1"].lastExecutedDate = pass[p].ist.dateStr
        /\ "skipped" \in DOMAIN pass[p].result
        /\ pass[p].result.skipped = 2
        /\ pass[p].result.processed = 0
        /\ Len(autoOrderExecutions) = 1

\* A request arrives at the handler of slot p and is served in this step
\* (the other step a handler takes from "done" is the test handler's reply).
Arrives(p) ==
    /\ pass[p].pc \in {"idle", "done", "replied"}
    /\ pass'[p] # pass[p]
    /\ ~(p = "test" /\ pass[p].pc = "done" /\ pass'[p].pc = "replied")

\* The local HH:MM of an instant, by the reference arithmetic.
RefTime(t) ==
    RefTwoDigits(((t + 330) % 1440) \div 60) \o ":" \o RefTwoDigits((t + 330) % 60)

SecretConfigured == env.CRON_SECRET \notin {Undefined, ""}

\* The request carries the configured secret, as bearer token or parameter.
Authenticated(req) ==
    \/ req.authorization = "Bearer " \o env.CRON_SECRET
    \/ req.secret = env.CRON_SECRET

C17_NoSecretFailsClosedInProduction ==
    ( ~SecretConfigured /\ env.NODE_ENV = "production" )
    => /\ pass["cron"].pc \in {"idle", "replied"}
       /\ pass["cron"].pc = "replied" => pass["cron"].result.status = 401

\* C18: in production the test endpoint answers 403 and never runs a pass,
\* whatever time the request names; and a pass of the cron endpoint, in any
\* mode and whatever time the request names, queries with the local time of
\* the instant it read from the clock.
C18_NoOverrideInProduction ==
    /\ []( env.NODE_ENV = "production"
           => /\ pass["test"].pc \in {"idle", "replied"}
              /\ pass["test"].pc = "replied"
                 => /\ pass["test"].result.status = 403
                    /\ pass["test"].queryTime = ""
                    /\ pass["test"].outcomes = <<>> )
    /\ [][( Arrives("test") /\ env.NODE_ENV = "production" ) => store' = store]_vars
    /\ [][( Arrives("cron") /\ pass'["cron"].pc # "replied" )
          => /\ pass'["cron"].now = clock
             /\ pass'["cron"].queryTime = RefTime(clock)]_vars
    /\ []( env.NODE_ENV = "production"
           => \A p \in DOMAIN pass :
                pass[p].pc \in {"loop", "tx", "commit", "done"}
                => pass[p].queryTime = RefTime(pass[p].now) )

\* C18 witness: in production a test request naming 09:15 has been answered
\* 403, and a cron request naming 09:15 runs a pass for 08:00, the time of
\* the clock.
C18_Witness ==
    /\ env.NODE_ENV = "production"
    /\ pass["test"].pc = "replied"
    /\ pass["test"].req.time = "09:15"
    /\ pass["test"].result.status = 403
    /\ pass["cron"].pc = "loop"
    /\ pass["cron"].req.time = "09:15"
    /\ pass["cron"].queryTime = "08:00"

\* The pass behind a response ended in a batch-level failure.
BatchFatal(r) == IF "success" \in DOMAIN r THEN ~r.success ELSE TRUE

\* C19: the response to a trigger call that ran a pass has status 500 when
\* the pass ended in a batch-level failure and status 200 otherwise, on the
\* cron endpoint and on the test endpoint alike.
C19_StatusReflectsBatchOutcome ==
    /\ pass["cron"].pc = "done"
       => pass["cron"].result.status
             = IF BatchFatal(pass["cron"].result) THEN 500 ELSE 200
    /\ ( pass["test"].pc = "replied" /\ pass["test"].result.status # 403 )
       => pass["test"].result.status
             = IF BatchFatal(pass["test"].result) THEN 500 ELSE 200

\* C20: two timer-driven passes are never in progress at the same time.
C20_TimerPassesNeverOverlap ==
    ~(InProgress(pass["timer"]) /\ InProgress(pass["late"]))

-----------------------------------------------------------------------------
(* C21 .. C30 *)

\* The step is one of the engine's: a pass moves in it (a top-up, which also
\* marks the transactions it invalidates, is not one).
PassStep == pass' # pass /\ topUps' = topUps

\* C21: a step of a pass never raises a wallet balance; it lowers one only
\* when it commits the success branch of the transaction, and then only the
\* balance of the order's owner, by the order's total; a step of a pass that
\* ends in any other branch (skip, insufficient balance, user not found,
\* unexpected error, batch-fatal) leaves every user document as it was.
C21_CoreOnlyDecrementsOnSuccess ==
    [][PassStep
       => /\ \A u \in UserIds :
               /\ users'[u].walletBalance <= users[u].walletBalance
               /\ users'[u].exists = users[u].exists
          /\ users' # users
             => \E p \in DOMAIN pass :
                  LET item == CurrentItem(pass[p]) IN
                  /\ pass[p].pc = "commit"
                  /\ pass'[p].succeeded = pass[p].succeeded + 1
                  /\ Len(orders') = Len(orders) + 1
                  /\ users' = [users EXCEPT ![item.data.userId].walletBalance
                                               = @ - Total(item.data)]
          /\ ( \A p \in DOMAIN pass : pass'[p].succeeded = pass[p].succeeded )
             => users' = users
      ]_vars

\* C21 witness: of a wallet of 100 the success of a1 (2 x 50) took 100, and
\* the pass then found a2 short of funds; the wallet holds 0.
C21_Witness ==
    \E p \in DOMAIN pass :
        /\ pass[p].pc = "done"
        /\ pass[p].outcomes
             = <<[id |-> "a1", outcome |-> "succeeded", error |-> "none"],
                 [id |-> "a2", outcome |-> "failed", error |-> "INSUFFICIENT_BALANCE"]>>
        /\ funded["u1"] = 100
        /\ users["u1"].walletBalance = 0

\* C22: no step of a pass changes the status of a recurring order or removes
\* one, whatever the step ends in.
C22_PassLeavesStatusAlone ==
    [][PassStep
       => \A a \in Range(AutoOrderIds) :
            /\ autoOrders'[a].status = autoOrders[a].status
            /\ autoOrders'[a].exists = autoOrders[a].exists
      ]_vars

\* C22 witness: a1 failed in a pass of the first day and again in a pass of
\* the second day, a2 ran in between, and both orders are active.
C22_Witness ==
    /\ pass["timer"].pc = "done"
    /\ pass["cron"].pc = "done"
    /\ pass["timer"].now < pass["cron"].now
    /\ DateOf(pass["timer"].now) # DateOf(pass["cron"].now)
    /\ \E e \in Range(pass["timer"].outcomes) : e.id = "a1" /\ e.outcome = "failed"
    /\ \E e \in Range(pass["cron"].outcomes) : e.id = "a1" /\ e.outcome = "failed"
    /\ autoOrders["a2"].totalExecutions >= 1
    /\ \A a \in Range(AutoOrderIds) :
         autoOrders[a].exists /\ autoOrders[a].status = "active"

\* C27: a pass of executeAutoOrders that returns success = true reports
\* candidates = skipped + processed and processed = succeeded + failed, with
\* one error per failed item; and when no active order has the resolved
\* time, it reports all five counts 0 and no error.
C27_SummaryCountsAddUp ==
    \A p \in DOMAIN pass :
        ( /\ IsEngine(p)
          /\ pass[p].pc = "done"
          /\ pass[p].result.success )
        => LET r == pass[p].result IN
           /\ r.candidates = r.skipped + r.processed
           /\ r.processed = r.succeeded + r.failed
           /\ Len(r.errors) = r.failed
           /\ r.skipped >= 0 /\ r.succeeded >= 0 /\ r.failed >= 0
           /\ ( \A a \in Range(AutoOrderIds) :
                  ~( /\ autoOrders[a].exists
                     /\ autoOrders[a].status = "active"
                     /\ autoOrders[a].time = pass[p].queryTime ) )
              => /\ r.candidates = 0 /\ r.skipped = 0 /\ r.processed = 0
                 /\ r.succeeded = 0 /\ r.failed = 0
                 /\ r.errors = <<>>

\* C27 witness: on the Saturday a pass of the engine has skipped the
\* weekdays order and failed the other one: 2 = 1 + 1, 1 = 0 + 1, one error.
C27_Witness ==
    \E p \in DOMAIN pass :
        /\ IsEngine(p)
        /\ pass[p].pc = "done"
        /\ pass[p].ist.day = "Sat"
        /\ pass[p].result.success
        /\ pass[p].result.candidates = 2
        /\ pass[p].result.skipped = 1
        /\ pass[p].result.processed = 1
        /\ pass[p].result.failed = 1
        /\ Len(pass[p].result.errors) = 1

\* The values of a BatchRunSummary that both invocation paths report.
ReportFields ==
    {"time", "day", "date", "candidates", "skipped", "processed", "succeeded", "failed"}

\* C26: a pass of the cron endpoint's handler and a pass of executeAutoOrders
\* called without override that read the same instant and concluded the same
\* candidates in the same way, neither ending in a batch-level failure,
\* report the same time, day, date, candidates, skipped, processed,
\* succeeded and failed values.
C26_BothPathsReportAlike ==
    \A p, q \in DOMAIN pass :
        ( /\ ~IsEngine(p) /\ IsEngine(q)
          /\ pass[p].pc = "done" /\ pass[q].pc = "done"
          /\ pass[q].req.time = Undefined
          /\ pass[p].now = pass[q].now
          /\ pass[p].outcomes = pass[q].outcomes
          /\ ~BatchFatal(pass[p].result) /\ ~BatchFatal(pass[q].result) )
        => \A f \in ReportFields :
             /\ f \in DOMAIN pass[p].result
             /\ f \in DOMAIN pass[q].result
             /\ pass[p].result[f] = pass[q].result[f]

\* The pass of slot p was called with an override time.
Overridden(ps) == ps.req.time \notin {Undefined, ""}

\* C29: a pass called with override time T selects the active orders whose
\* fire time is T and reports T as its time, while its weekday and date are
\* those of the instant it read from the clock: the evaluator decides by that
\* weekday, the ledger guard compares with that date, and that date is what
\* a run writes to lastExecutedDate; so a pass that later finds the order
\* marked with the date of its own instant skips it.
C29_OverrideReplacesOnlyFireTime ==
    /\ [][\A p \in DOMAIN pass :
            ( Arrives(p) /\ Overridden(pass'[p]) /\ pass'[p].pc # "replied" )
            => /\ pass'[p].now = clock
               /\ pass'[p].queryTime = pass'[p].req.time
               /\ ~QueryFailed(p)
                  => {pass'[p].snapshot[i].id : i \in 1..Len(pass'[p].snapshot)}
                       = {a \in Range(AutoOrderIds) :
                             /\ autoOrders[a].status = "active"
                             /\ autoOrders[a].time = pass'[p].req.time}
       ]_vars
    /\ [](\A p \in DOMAIN pass :
            ( \/ pass[p].pc \in {"loop", "tx", "commit", "done"}
              \/ pass[p].pc = "replied" /\ "time" \in DOMAIN pass[p].result )
            => LET dayN == (pass[p].now + 330) \div 1440 IN
               /\ pass[p].ist.day = WeekdayOf(dayN)
               /\ pass[p].ist.dateStr = RefDate(dayN)
               /\ ( Overridden(pass[p]) /\ "time" \in DOMAIN pass[p].result )
                  => pass[p].result.time = pass[p].req.time)
    /\ [][\A p \in DOMAIN pass :
            Decides(p)
            => LET a    == CurrentItem(pass[p]).data
                   dayN == (pass[p].now + 330) \div 1440
               IN
               /\ a.lastExecutedDate = RefDate(dayN) => SkipsIt(p)
               /\ ( a.frequency = "weekdays" /\ a.lastExecutedDate # RefDate(dayN) )
                  => (Fires(p) <=> WeekdayOf(dayN) \notin {"Sat", "Sun"})
               /\ ( a.frequency = "daily" /\ a.lastExecutedDate # RefDate(dayN) )
                  => Fires(p)
       ]_vars
    /\ [][\A p \in DOMAIN pass :
            ( pass[p].pc = "commit" /\ pass'[p].succeeded = pass[p].succeeded + 1 )
            => autoOrders'[CurrentItem(pass[p]).id].lastExecutedDate
                 = RefDate((pass[p].now + 330) \div 1440)
       ]_vars

\* C29 witness: on the Friday at 08:00 a test pass with ?time=08:01 ran a2,
\* marking it 2024-01-05, and the timer pass of 08:01 that day skipped it.
C29_Witness ==
    /\ pass["test"].req.time = "08:01"
    /\ pass["test"].now = FirstDay * 1440 + 150
    /\ pass["test"].outcomes = <<[id |-> "a2", outcome |-> "succeeded", error |-> "none"]>>
    /\ "time" \in DOMAIN pass["test"].result
    /\ pass["test"].result.time = "08:01"
    /\ pass["timer"].pc = "done"
    /\ pass["timer"].now = FirstDay * 1440 + 151
    /\ pass["timer"].outcomes = <<[id |-> "a2", outcome |-> "skipped", error |-> "none"]>>
    /\ autoOrders["a2"].lastExecutedDate = "2024-01-05"
    /\ Len(orders) = 1

\* An endpoint answered: the step is a handler's, not the engine's.
Answers == api' # api \/ (pass' = pass /\ clock' = clock /\ topUps' = topUps
                          /\ (autoOrders' # autoOrders
                              \/ legacyAutoOrders' # legacyAutoOrders))

\* C23: a step of an endpoint that creates, changes or deletes a recurring
\* order, in either collection, is taken for an authenticated caller who is
\* the owner of the record (of the new record, for a create), and a call that
\* is answered with an error leaves every record as it was.
C23_OnlyOwnerMutates ==
    [][Answers =>
         /\ \A a \in Range(AutoOrderIds) :
              autoOrders'[a] # autoOrders[a]
              => /\ api'.uid # Undefined
                 /\ api'.status = 200
                 /\ api'.uid = IF autoOrders[a].exists THEN autoOrders[a].userId
                               ELSE autoOrders'[a].userId
         /\ \A l \in LegacyIds :
              legacyAutoOrders'[l] # legacyAutoOrders[l]
              => /\ api'.uid # Undefined
                 /\ api'.status = 200
                 /\ api'.uid = IF legacyAutoOrders[l].exists
                               THEN legacyAutoOrders[l].userId
                               ELSE legacyAutoOrders'[l].userId
    ]_vars

\* The weekday set of a stored order is non-empty and every entry is a
\* weekday token.
ValidDays(customDays) ==
    /\ customDays.isArray
    /\ customDays.items # <<>>
    /\ \A i \in 1..Len(customDays.items) : customDays.items[i] \in Range(VALID_DAYS)

C25_ChargesStoredPrice ==
    /\ [][\A p \in DOMAIN pass :
            ( pass[p].pc = "commit" /\ pass'[p].succeeded = pass[p].succeeded + 1 )
            => LET a == CurrentItem(pass[p]).data
                   o == orders'[Len(orders')]
               IN
               /\ Len(orders') = Len(orders) + 1
               /\ o.total = a.itemPrice * a.quantity
               /\ o.items = <<[price |-> a.itemPrice, quantity |-> a.quantity]>>
               /\ users'[a.userId].walletBalance
                    = users[a.userId].walletBalance - a.itemPrice * a.quantity
       ]_vars
    /\ [][menuItems' # menuItems => autoOrders' = autoOrders]_vars
    /\ [][\A a \in Range(AutoOrderIds) :
            ( autoOrders[a].exists /\ autoOrders'[a].exists
              /\ autoOrders'[a].itemPrice # autoOrders[a].itemPrice )
            => /\ api'.endpoint = "PATCH"
               /\ api'.id = a
               /\ api'.uid = autoOrders[a].userId
               /\ api'.status = 200
               /\ api'.body.itemId # Undefined
               /\ autoOrders'[a].itemPrice = menuItems[api'.body.itemId].price
       ]_vars

\* C25 witness: the price of m1 went from 50 to 60 before the first run,
\* which charged 2 x 50; the owner then selected m1 again, and the run of the
\* next day charged 2 x 60.
C25_Witness ==
    /\ Len(orders) = 2
    /\ menuItems["m1"].price = 60
    /\ menuItems["m1"].changedAt # NoTime
    /\ menuItems["m1"].changedAt < orders[1].createdAt
    /\ orders[1].total = 100
    /\ orders[2].total = 120
    /\ autoOrders["a1"].itemPrice = 60
    /\ users["u1"].walletBalance = 80

\* C28: a successful commit of a pass, which creates the Order and debits the
\* wallet, is for a recurring order whose stored status is not paused at that
\* moment.
C28_PausedBeforeCommitIsNotExecuted ==
    [][\A p \in DOMAIN pass :
         ( pass[p].pc = "commit"
           /\ ( Len(orders') > Len(orders)
                \/ \E u \in UserIds : users'[u].walletBalance < users[u].walletBalance ) )
         => autoOrders[CurrentItem(pass[p]).id].status # "paused"
    ]_vars

\* Call c starts an attempt on a provider key in this step.
StartsAttempt(c) == aiCalls'[c].pc = "await" /\ aiCalls'[c] # aiCalls[c]

\* The breaker itself: a key with 3 failures on its count is open; an open
\* key is attempted only when 5 minutes have passed since its last failure,
\* and then with its count at 0 and its circuit closed; and a success leaves
\* the count at 0 and the circuit closed.
BreakerOpensAndCools ==
    /\ [](\A k \in CircuitKeys :
            circuitBreakers[k].failures >= 3 => circuitBreakers[k].isOpen)
    /\ [][\A c \in AiCallIds :
            StartsAttempt(c)
            => LET k == CircuitKey(PROVIDER_ORDER[aiCalls'[c].pi], aiCalls'[c].ki) IN
               circuitBreakers[k].isOpen
               => /\ clock - circuitBreakers[k].lastFailureAt >= 5
                  /\ circuitBreakers'[k].failures = 0
                  /\ ~circuitBreakers'[k].isOpen
       ]_vars
    /\ [][\A c \in AiCallIds :
            ( aiCalls[c].pc = "await" /\ aiCalls'[c].pc = "done"
              /\ aiCalls'[c].result.success )
            => LET k == CircuitKey(PROVIDER_ORDER[aiCalls[c].pi], aiCalls[c].ki) IN
               /\ circuitBreakers'[k].failures = 0
               /\ ~circuitBreakers'[k].isOpen
       ]_vars

\* C30: the breaker opens a key at 3 failures, keeps it from being attempted
\* for 5 minutes after its last failure, re-admits it with the count at 0,
\* and closes it on a success; and one call of runTextAI or runVisionAI makes
\* at most maxRetriesPerProvider attempts on any one provider.
C30_CircuitBreaker ==
    /\ BreakerOpensAndCools
    /\ [](\A c \in AiCallIds : \A i \in 1..Len(PROVIDER_ORDER) :
            aiCalls[c].attempts[i] <= DEFAULT_CONFIG.maxRetriesPerProvider)

====
